---- MODULE Spec2Model ----
(***************************************************************************)
(* Diff-aware comment placement of the GitLab AI MR reviewer.              *)
(*                                                                         *)
(* A JavaScript string is a sequence of one-character strings, so that     *)
(* startsWith, substring, includes, the regular expressions and the        *)
(* character-wise comparisons of the source are computed, not assumed.     *)
(* `number | null` is an option: None or Some(n).                          *)
(***************************************************************************)
EXTENDS Integers, Sequences, FiniteSets, TLC

VARIABLES pc, changes, diffContent, fileDiffs, issue, position,
          phase, cursorApiKey, gitlabNotes, discussionsFile, existingDiscussions,
          phase1Issues, issuesWithLineNumbers, aiReview, reviewJson, agentRuns, exitCode,
          requests, successfullyPostedComments, postingDone,
          STATS, metrics, gradingResult, generalNotes, mustPassReviewQuality,
          execution,
          args, returned

\* the state of one run of main: where it stands, its environment, its lists
\* the state of postAIInlineComments: the requests sent, the comments posted, the return
postingVars == <<requests, successfullyPostedComments, postingDone>>

\* the publishing step of main: aiReview.metrics, the grading, the general notes sent, the gate
publishVars == <<metrics, gradingResult, generalNotes, mustPassReviewQuality>>

pipelineVars == <<phase, cursorApiKey, gitlabNotes, discussionsFile, existingDiscussions,
                  phase1Issues, issuesWithLineNumbers, aiReview, reviewJson, agentRuns, exitCode,
                  postingVars, STATS, publishVars>>

\* the arguments and the result of a function that is called on its own
callVars == <<args, returned>>

\* what a run of main leaves alone
outsidePipeline == <<callVars, execution>>

\* what fixLineNumbersForIssues leaves alone
outsideResolver == <<pipelineVars, outsidePipeline>>

vars == <<pc, changes, diffContent, fileDiffs, issue, position, pipelineVars, execution, callVars>>

(***************************************************************************)
(* String primitives                                                       *)
(***************************************************************************)
None == {}

Some(n) == {n}

IsSome(o) == o # {}

Unwrap(o) == CHOOSE n \in o : TRUE

startsWith(s, p) == Len(s) >= Len(p) /\ SubSeq(s, 1, Len(p)) = p

substring(s, from) == SubSeq(s, from + 1, Len(s))

\* String.prototype.indexOf, 1-based; 0 when p does not occur in s
indexOf(s, p) ==
  LET hits == {i \in 1..(Len(s) - Len(p) + 1) : SubSeq(s, i, i + Len(p) - 1) = p}
  IN IF hits = {} THEN 0 ELSE CHOOSE i \in hits : \A j \in hits : i <= j

\* String.prototype.lastIndexOf, 1-based; 0 when p does not occur in s
lastIndexOf(s, p) ==
  LET hits == {i \in 1..(Len(s) - Len(p) + 1) : SubSeq(s, i, i + Len(p) - 1) = p}
  IN IF hits = {} THEN 0 ELSE CHOOSE i \in hits : \A j \in hits : i >= j

includes(s, p) == p = <<>> \/ indexOf(s, p) # 0

Digits == <<"0", "1", "2", "3", "4", "5", "6", "7", "8", "9">>

IsDigit(c) == \E d \in 1..Len(Digits) : Digits[d] = c

DigitValue(c) == (CHOOSE d \in 1..Len(Digits) : Digits[d] = c) - 1

RECURSIVE parseInt(_)
\* parseInt of a non-empty run of decimal digits
parseInt(s) ==
  IF s = <<>> THEN 0
  ELSE parseInt(SubSeq(s, 1, Len(s) - 1)) * 10 + DigitValue(s[Len(s)])

\* end (exclusive) of the longest run of digits of s that starts at index i
DigitsEnd(s, i) ==
  LET stops == {j \in i..Len(s) : ~IsDigit(s[j])}
  IN IF stops = {} THEN Len(s) + 1 ELSE CHOOSE j \in stops : \A k \in stops : j <= k

HasAt(s, i, p) == i >= 1 /\ i + Len(p) - 1 <= Len(s) /\ SubSeq(s, i, i + Len(p) - 1) = p

(***************************************************************************)
(* parseDiffPatch: the line patterns                                       *)
(***************************************************************************)
DiffGit == <<"d","i","f","f"," ","-","-","g","i","t"," ">>

DiffGitA == <<"d","i","f","f"," ","-","-","g","i","t"," ","a","/">>

SpaceB == <<" ","b","/">>

NewFileMode == <<"n","e","w"," ","f","i","l","e"," ","m","o","d","e">>

DeletedFileMode == <<"d","e","l","e","t","e","d"," ","f","i","l","e"," ","m","o","d","e">>

AtAt == <<"@","@">>

\* line.match(/diff --git a\/(.*) b\/(.*)/): leftmost start, first group greedy
MatchFileHeader(line) ==
  LET p    == indexOf(line, DiffGitA)
      rest == SubSeq(line, p + Len(DiffGitA), Len(line))
      q    == lastIndexOf(rest, SpaceB)
  IN IF p = 0 \/ q = 0
     THEN [ok |-> FALSE, oldPath |-> <<>>, newPath |-> <<>>]
     ELSE [ok |-> TRUE,
           oldPath |-> SubSeq(rest, 1, q - 1),
           newPath |-> SubSeq(rest, q + Len(SpaceB), Len(rest))]

\* RangeAt with a count that is left out read as 0
RangeAtCountZero(s, i) ==
  LET e1  == DigitsEnd(s, i)
      has == e1 > i /\ HasAt(s, e1, <<",">>) /\ DigitsEnd(s, e1 + 1) > e1 + 1
      e2  == IF has THEN DigitsEnd(s, e1 + 1) ELSE e1
  IN [ok |-> e1 > i,
      start |-> parseInt(SubSeq(s, i, e1 - 1)),
      count |-> IF has THEN parseInt(SubSeq(s, e1 + 1, e2 - 1)) ELSE 0,
      next |-> e2]

\* a `-a[,b]` or `+c[,d]` range that starts at index i of s (i is the first digit)
RangeAt(s, i) ==
  LET e1  == DigitsEnd(s, i)
      has == e1 > i /\ HasAt(s, e1, <<",">>) /\ DigitsEnd(s, e1 + 1) > e1 + 1
      e2  == IF has THEN DigitsEnd(s, e1 + 1) ELSE e1
  IN [ok |-> e1 > i,
      start |-> parseInt(SubSeq(s, i, e1 - 1)),
      count |-> IF has THEN parseInt(SubSeq(s, e1 + 1, e2 - 1)) ELSE 1,
      next |-> e2]

\* the pattern /@@ -(\d+)(?:,(\d+))? \+(\d+)(?:,(\d+))? @@/ tried at index p
HunkHeaderAt(s, p) ==
  LET o == RangeAt(s, p + 4)
      n == RangeAt(s, o.next + 2)
  IN [ok |-> /\ HasAt(s, p, <<"@","@"," ","-">>)
             /\ o.ok
             /\ HasAt(s, o.next, <<" ","+">>)
             /\ n.ok
             /\ HasAt(s, n.next, <<" ","@","@">>),
      oldStart |-> o.start, oldCount |-> o.count,
      newStart |-> n.start, newCount |-> n.count]

\* line.match(...) is unanchored: the leftmost index where the pattern matches
MatchHunkHeader(line) ==
  LET hits == {p \in 1..Len(line) : HunkHeaderAt(line, p).ok}
  IN IF hits = {}
     THEN [ok |-> FALSE, oldStart |-> 0, oldCount |-> 0, newStart |-> 0, newCount |-> 0]
     ELSE HunkHeaderAt(line, CHOOSE p \in hits : \A r \in hits : p <= r)

(***************************************************************************)
(* parseDiffPatch: the loop.  currentFile and currentHunk are references:  *)
(* fileStore and hunkStore hold the objects, 0 is null, files maps a       *)
(* newPath to a file reference and a file holds hunk references.           *)
(***************************************************************************)
ParserInit ==
  [files |-> <<>>, keys |-> {}, fileStore |-> <<>>, hunkStore |-> <<>>,
   currentFile |-> 0, currentHunk |-> 0, oldLineNumber |-> 0, newLineNumber |-> 0]

\* currentFile?.hunks.push(currentHunk)
PushHunk(st) ==
  IF st.currentFile = 0 THEN st
  ELSE [st EXCEPT !.fileStore[st.currentFile].hunks = Append(@, st.currentHunk)]

\* files.set(currentFile.newPath, currentFile) when the file has hunks
SaveFile(st) ==
  IF st.currentFile # 0 /\ Len(st.fileStore[st.currentFile].hunks) > 0
  THEN LET k == st.fileStore[st.currentFile].newPath
       IN [st EXCEPT !.keys = @ \cup {k},
                     !.files = [p \in st.keys \cup {k} |->
                                  IF p = k THEN st.currentFile ELSE st.files[p]]]
  ELSE st

FileHeaderLine(st, line) ==
  LET s1 == IF st.currentHunk # 0 /\ st.currentFile # 0
            THEN [PushHunk(st) EXCEPT !.currentHunk = 0]
            ELSE st
      s2 == SaveFile(s1)
      m  == MatchFileHeader(line)
  IN IF m.ok
     THEN [s2 EXCEPT !.fileStore = Append(@, [oldPath |-> m.oldPath, newPath |-> m.newPath,
                                              isNewFile |-> FALSE, isDeletedFile |-> FALSE,
                                              hunks |-> <<>>]),
                     !.currentFile = Len(s2.fileStore) + 1]
     ELSE s2

NewFileLine(st) ==
  IF st.currentFile # 0 THEN [st EXCEPT !.fileStore[st.currentFile].isNewFile = TRUE] ELSE st

DeletedFileLine(st) ==
  IF st.currentFile # 0 THEN [st EXCEPT !.fileStore[st.currentFile].isDeletedFile = TRUE] ELSE st

HunkHeaderLine(st, line) ==
  LET s1 == IF st.currentHunk # 0 THEN PushHunk(st) ELSE st
      m  == MatchHunkHeader(line)
  IN IF m.ok
     THEN [s1 EXCEPT !.hunkStore = Append(@, [oldStart |-> m.oldStart, oldCount |-> m.oldCount,
                                              newStart |-> m.newStart, newCount |-> m.newCount,
                                              lines |-> <<>>, headerLine |-> line]),
                     !.currentHunk = Len(s1.hunkStore) + 1,
                     !.oldLineNumber = m.oldStart,
                     !.newLineNumber = m.newStart]
     ELSE s1

\* AddedLine that records the old counter as well
AddedLineKeepsOld(st, line, patchLineNumber) ==
  [st EXCEPT !.hunkStore[st.currentHunk].lines =
                Append(@, [type |-> "added", content |-> substring(line, 1),
                           old_line |-> Some(st.oldLineNumber),
                           new_line |-> Some(st.newLineNumber),
                           diff_line_in_patch |-> patchLineNumber]),
             !.newLineNumber = @ + 1]

\* a line that starts with '+'
AddedLine(st, line, patchLineNumber) ==
  [st EXCEPT !.hunkStore[st.currentHunk].lines =
                Append(@, [type |-> "added", content |-> substring(line, 1),
                           old_line |-> None, new_line |-> Some(st.newLineNumber),
                           diff_line_in_patch |-> patchLineNumber]),
             !.newLineNumber = @ + 1]

\* RemovedLine that advances the new counter as well
RemovedLineAdvancesNew(st, line, patchLineNumber) ==
  [st EXCEPT !.hunkStore[st.currentHunk].lines =
                Append(@, [type |-> "removed", content |-> substring(line, 1),
                           old_line |-> Some(st.oldLineNumber), new_line |-> None,
                           diff_line_in_patch |-> patchLineNumber]),
             !.oldLineNumber = @ + 1,
             !.newLineNumber = @ + 1]

\* a line that starts with '-'
RemovedLine(st, line, patchLineNumber) ==
  [st EXCEPT !.hunkStore[st.currentHunk].lines =
                Append(@, [type |-> "removed", content |-> substring(line, 1),
                           old_line |-> Some(st.oldLineNumber), new_line |-> None,
                           diff_line_in_patch |-> patchLineNumber]),
             !.oldLineNumber = @ + 1]

\* a line that starts with ' '
ContextLine(st, line, patchLineNumber) ==
  [st EXCEPT !.hunkStore[st.currentHunk].lines =
                Append(@, [type |-> "context", content |-> substring(line, 1),
                           old_line |-> Some(st.oldLineNumber),
                           new_line |-> Some(st.newLineNumber),
                           diff_line_in_patch |-> patchLineNumber]),
             !.oldLineNumber = @ + 1,
             !.newLineNumber = @ + 1]

\* hunk content lines; any other line is skipped
ContentLine(st, line, patchLineNumber) ==
  IF st.currentHunk = 0 THEN st
  ELSE IF startsWith(line, <<"+">>) THEN AddedLine(st, line, patchLineNumber)
  ELSE IF startsWith(line, <<"-">>) THEN RemovedLine(st, line, patchLineNumber)
  ELSE IF startsWith(line, <<" ">>) THEN ContextLine(st, line, patchLineNumber)
  ELSE st

\* one iteration of the for loop over the lines of the patch
ParseLine(st, line, patchLineNumber) ==
  IF startsWith(line, DiffGit) THEN FileHeaderLine(st, line)
  ELSE IF startsWith(line, NewFileMode) THEN NewFileLine(st)
  ELSE IF startsWith(line, DeletedFileMode) THEN DeletedFileLine(st)
  ELSE IF startsWith(line, AtAt) THEN HunkHeaderLine(st, line)
  ELSE ContentLine(st, line, patchLineNumber)

RECURSIVE ParseLines(_, _)
\* the parser state after the first n lines
ParseLines(lines, n) ==
  IF n = 0 THEN ParserInit ELSE ParseLine(ParseLines(lines, n - 1), lines[n], n)

\* after the loop: add the last hunk and the last file
ParseFinish(st) == SaveFile(IF st.currentHunk # 0 THEN PushHunk(st) ELSE st)

\* the returned Map<string, FileDiff>, references followed
Materialize(st) ==
  [p \in st.keys |->
     LET f == st.fileStore[st.files[p]]
     IN [f EXCEPT !.hunks = [h \in 1..Len(f.hunks) |-> st.hunkStore[f.hunks[h]]]]]

\* diffContent.split('\n') is the sequence `lines`
parseDiffPatch(lines) == Materialize(ParseFinish(ParseLines(lines, Len(lines))))

(***************************************************************************)
(* findCorrectLineNumbers                                                  *)
(***************************************************************************)
Whitespace == {" ", "\t"}

Punctuation == {";", ",", "(", ")", "{", "}", "="}

RECURSIVE SelectIdx(_, _, _)
\* the characters of s at the indices of K that are <= n, in order
SelectIdx(s, K, n) ==
  IF n = 0 THEN <<>>
  ELSE IF n \in K THEN Append(SelectIdx(s, K, n - 1), s[n])
  ELSE SelectIdx(s, K, n - 1)

\* String.prototype.trim
trim(s) ==
  LET solid == {i \in 1..Len(s) : s[i] \notin Whitespace}
  IN IF solid = {} THEN <<>>
     ELSE SubSeq(s, CHOOSE i \in solid : \A j \in solid : i <= j,
                    CHOOSE i \in solid : \A j \in solid : i >= j)

\* replace(/\s+/g, ' ')
CollapseWhitespace(s) ==
  LET blank == [i \in 1..Len(s) |-> IF s[i] \in Whitespace THEN " " ELSE s[i]]
      keep  == {i \in 1..Len(s) : s[i] \notin Whitespace \/ i = 1 \/ s[i - 1] \notin Whitespace}
  IN SelectIdx(blank, keep, Len(s))

\* replace(/\s*([;,\(\)\{\}=])\s*/g, '$1') on a string whose whitespace runs are
\* single: every whitespace character next to a punctuation character goes
StripAroundPunctuation(s) ==
  LET keep == {i \in 1..Len(s) :
                 \/ s[i] \notin Whitespace
                 \/ /\ ~(i > 1 /\ s[i - 1] \in Punctuation)
                    /\ ~(i < Len(s) /\ s[i + 1] \in Punctuation)}
  IN SelectIdx(s, keep, Len(s))

normalizeCode(code) == StripAroundPunctuation(CollapseWhitespace(trim(code)))

\* genericPatterns without the statements
genericPatternsBraces == {<<"}">>, <<"{">>, <<"}", ";">>, <<>>}

genericPatterns == {<<"}">>, <<"{">>, <<"}", ";">>, <<>>,
                    <<"r","e","t","u","r","n",";">>,
                    <<"b","r","e","a","k",";">>,
                    <<"c","o","n","t","i","n","u","e",";">>}

\* the target is too short or too generic to be searched for
IsTooShort(targetCode) == Len(targetCode) < 5

\* aiProvidedNewLine || 0
HintOrZero(aiProvidedNewLine) ==
  IF aiProvidedNewLine = None THEN 0 ELSE Unwrap(aiProvidedNewLine)

\* the early returns of findCorrectLineNumbers
FallbackResult(aiProvidedNewLine) ==
  [old_line |-> None, new_line |-> Some(HintOrZero(aiProvidedNewLine)), confidence |-> "fallback"]

\* ScoreGt that lets an equal score win
ScoreGe(a, b) == a[1] * b[2] >= b[1] * a[2]

\* a score is the fraction <<numerator, denominator>>
ScoreGt(a, b) == a[1] * b[2] > b[1] * a[2]

FuzzyMatch(line, score) ==
  [best |-> Some([old_line |-> line.old_line, new_line |-> line.new_line, confidence |-> "fuzzy"]),
   score |-> score]

\* Method 1: target is a substring of line
SubstringOfLine(acc, line, lineCode, targetCode) ==
  IF /\ Len(targetCode) >= 15
     /\ includes(lineCode, targetCode)
     /\ ScoreGt(<<Len(targetCode), Len(lineCode)>>, acc.score)
  THEN FuzzyMatch(line, <<Len(targetCode), Len(lineCode)>>)
  ELSE acc

\* Method 2: line is a substring of target
LineSubstringOfTarget(acc, line, lineCode, targetCode) ==
  IF /\ Len(lineCode) >= 15
     /\ includes(targetCode, lineCode)
     /\ ScoreGt(<<Len(lineCode), Len(targetCode)>>, acc.score)
  THEN FuzzyMatch(line, <<Len(lineCode), Len(targetCode)>>)
  ELSE acc

Min(a, b) == IF a <= b THEN a ELSE b

Max(a, b) == IF a >= b THEN a ELSE b

matchingChars(targetCode, lineCode) ==
  Cardinality({i \in 1..Min(Len(targetCode), Len(lineCode)) : targetCode[i] = lineCode[i]})

\* SimilarityRatio without its own 0.6 floor
SimilarityRatioNoFloor(acc, line, lineCode, targetCode) ==
  LET similarity == <<matchingChars(targetCode, lineCode), Max(Len(targetCode), Len(lineCode))>>
  IN IF /\ Len(targetCode) >= 20
        /\ Len(lineCode) >= 20
        /\ ScoreGt(similarity, acc.score)
     THEN FuzzyMatch(line, similarity)
     ELSE acc

\* Method 3: similarity ratio, matching characters at the same index
SimilarityRatio(acc, line, lineCode, targetCode) ==
  LET similarity == <<matchingChars(targetCode, lineCode), Max(Len(targetCode), Len(lineCode))>>
  IN IF /\ Len(targetCode) >= 20
        /\ Len(lineCode) >= 20
        /\ ScoreGt(similarity, <<6, 10>>)
        /\ ScoreGt(similarity, acc.score)
     THEN FuzzyMatch(line, similarity)
     ELSE acc

\* the three fuzzy methods applied in turn to one line
FuzzyStep(acc, line, lineCode, targetCode) ==
  SimilarityRatio(
    LineSubstringOfTarget(
      SubstringOfLine(acc, line, lineCode, targetCode),
      line, lineCode, targetCode),
    line, lineCode, targetCode)

\* all lines of the file in hunk and line order
RECURSIVE HunkLines(_, _)
HunkLines(hunks, n) ==
  IF n = 0 THEN <<>> ELSE HunkLines(hunks, n - 1) \o hunks[n].lines

\* the final return: best match if the score is good enough, else new_line 0
BestOrFallback(acc) ==
  IF acc.best # None /\ ScoreGt(acc.score, <<4, 10>>)
  THEN Unwrap(acc.best)
  ELSE [old_line |-> None, new_line |-> Some(0), confidence |-> "fallback"]

\* IsRemoved that skips nothing
IsRemovedNever(line) == FALSE

\* removed lines do not exist in the new file
IsRemoved(line) == line.type = "removed"

\* lines of fewer than 3 normalized characters are skipped as empty
IsEmptyLine(lineCode) == Len(lineCode) < 3

\* ExactMatch that takes the line's place in the patch for its new_line
ExactMatchPatchLine(line) ==
  [old_line |-> line.old_line, new_line |-> Some(line.diff_line_in_patch), confidence |-> "exact"]

ExactMatch(line) ==
  [old_line |-> line.old_line, new_line |-> line.new_line, confidence |-> "exact"]

RECURSIVE SearchLines(_, _, _, _)
\* the nested loop over hunks and lines, from line i on
SearchLines(lines, i, acc, targetCode) ==
  IF i > Len(lines) THEN BestOrFallback(acc)
  ELSE LET line     == lines[i]
           lineCode == normalizeCode(line.content)
       IN IF IsRemoved(line) THEN SearchLines(lines, i + 1, acc, targetCode)
          ELSE IF IsEmptyLine(lineCode) THEN SearchLines(lines, i + 1, acc, targetCode)
          ELSE IF lineCode = targetCode THEN ExactMatch(line)
          ELSE SearchLines(lines, i + 1, FuzzyStep(acc, line, lineCode, targetCode), targetCode)

findCorrectLineNumbers(filePath, codeContent, aiProvidedNewLine, diffs) ==
  IF filePath \notin DOMAIN diffs THEN FallbackResult(aiProvidedNewLine)
  ELSE IF codeContent = <<>> \/ Len(trim(codeContent)) = 0 THEN FallbackResult(aiProvidedNewLine)
  ELSE LET targetCode == normalizeCode(codeContent)
       IN IF IsTooShort(targetCode) THEN FallbackResult(aiProvidedNewLine)
          ELSE IF targetCode \in genericPatterns THEN FallbackResult(aiProvidedNewLine)
          ELSE SearchLines(HunkLines(diffs[filePath].hunks, Len(diffs[filePath].hunks)),
                           1, [best |-> None, score |-> <<0, 1>>], targetCode)

(***************************************************************************)
(* Inputs.  A GitLab change is its paths and the hunks of its diff, a hunk *)
(* being its two start lines and its body; the text of the diff is written *)
(* from them the way git writes it.                                        *)
(***************************************************************************)
MaxBody == 3

Rep(c, n) == [i \in 1..n |-> c]

RECURSIVE FormatNat(_)
\* the decimal digits of n
FormatNat(n) == IF n < 10 THEN <<Digits[n + 1]>> ELSE FormatNat(n \div 10) \o <<Digits[(n % 10) + 1]>>

\* `start,count`, the count left out when it is 1
FormatRange(start, count) ==
  FormatNat(start) \o (IF count = 1 THEN <<>> ELSE <<",">> \o FormatNat(count))

\* a body line is a prefix character and a content
BodyLine(prefix, content) == [prefix |-> prefix, content |-> content]

CountOld(body) == Cardinality({i \in 1..Len(body) : body[i].prefix # "+"})

CountNew(body) == Cardinality({i \in 1..Len(body) : body[i].prefix # "-"})

Hunk(oldStart, newStart, body) == [oldStart |-> oldStart, newStart |-> newStart, body |-> body]

HunkText(h) ==
  <<(<<"@","@"," ","-">> \o FormatRange(h.oldStart, CountOld(h.body)) \o <<" ","+">>
       \o FormatRange(h.newStart, CountNew(h.body)) \o <<" ","@","@">>)>>
  \o [i \in 1..Len(h.body) |-> <<h.body[i].prefix>> \o h.body[i].content]

RECURSIVE HunksText(_, _)
HunksText(hunks, n) == IF n = 0 THEN <<>> ELSE HunksText(hunks, n - 1) \o HunkText(hunks[n])

\* change.diff split at '\n'; the text ends with a newline
DiffOf(change) == HunksText(change.hunks, Len(change.hunks)) \o <<<<>>>>

\* `${header}\n${change.diff}`
ChangeText(change) ==
  <<DiffGitA \o change.old_path \o SpaceB \o change.new_path,
    <<"-","-","-"," ","a","/">> \o change.old_path,
    <<"+","+","+"," ","b","/">> \o change.new_path>> \o DiffOf(change)

RECURSIVE JoinChanges(_, _)
\* changes.map(...).join('\n\n'), split at '\n'
JoinChanges(chs, n) ==
  IF n = 0 THEN <<>>
  ELSE IF n = 1 THEN ChangeText(chs[1])
  ELSE JoinChanges(chs, n - 1) \o <<<<>>>> \o ChangeText(chs[n])

createUnifiedDiff(chs) == IF chs = <<>> THEN <<<<>>>> ELSE JoinChanges(chs, Len(chs))

Change(path, hunks) == [old_path |-> path, new_path |-> path, hunks |-> hunks]

PathF == <<"f">>

PathG == <<"g">>

PathH == <<"h">>

\* the normalized target: foo(aaaaaaaaaaaaaa); of 20 characters
TargetCode == <<"f","o","o","(">> \o Rep("a", 14) \o <<")",";">>

\* the snippet as the AI paraphrases it
SnippetFoo == <<"f","o","o","("," ">> \o Rep("a", 14) \o <<" ",")",";">>

\* a line that normalizes to the target
LineExact == <<" "," ","f","o","o","(">> \o Rep("a", 14) \o <<")"," ",";">>

\* 25 normalized characters that contain the target: score 20/25
LineContains == <<"r","e","t","v"," ","="," ","f","o","o","("," ">> \o Rep("a", 14) \o <<" ",")"," ",";">>

\* 16 characters contained in the target: score 16/20
LineContained == Rep("a", 14) \o <<")",";">>

\* 20 characters, 10 of them equal to the target's at the same index: 0.5
LineHalf == <<"f","o","o","(">> \o Rep("a", 6) \o Rep("b", 10)

\* 20 characters, 13 of them equal to the target's at the same index: 0.65
LineSimilar == <<"f","o","o","(">> \o Rep("a", 9) \o Rep("b", 7)

\* 50 characters that contain the target: score 20/50, not above 0.4
LineLong == TargetCode \o Rep("z", 30)

LineBrace == <<"}">>

LineReturn == <<" ","r","e","t","u","r","n",";">>

BodyPool ==
  {BodyLine("+", LineExact), BodyLine(" ", LineExact), BodyLine("-", LineExact),
   BodyLine("+", LineContains), BodyLine(" ", LineContained),
   BodyLine("+", LineHalf), BodyLine(" ", LineSimilar),
   BodyLine("+", LineBrace), BodyLine("+", LineLong), BodyLine("+", LineReturn)}

Bodies == UNION {[1..k -> BodyPool] : k \in 0..MaxBody}

Starts == {<<3, 5>>}

GeneratedChanges ==
  {<<Change(PathF, <<Hunk(st[1], st[2], body)>>)>> : st \in Starts, body \in Bodies}

SnippetGetImm == <<"c","o","n","t","e","x","t",".","g","e","t","I","m","m","(",")",","," ","n","u","l","l",")",";">>

SnippetConsole == <<"c","o","n","s","o","l","e",".","l","o","g","(","\"","s","t","a","r","t","\"",")",";">>

LineMain == <<"m","a","i","n","(",")",";">>

\* @@ -1699,7 +1699,7 @@: 3 context, 1 removed, 1 added, 2 context
Change1699 ==
  Change(PathF,
    <<Hunk(1699, 1699,
        <<BodyLine(" ", <<"{">>), BodyLine(" ", LineMain), BodyLine(" ", LineExact),
          BodyLine("-", <<"c","o","n","t","e","x","t",".","g","e","t","I","m","m","(",")",")",";">>),
          BodyLine("+", SnippetGetImm),
          BodyLine(" ", LineMain), BodyLine(" ", <<"}">>)>>)>>)

\* @@ -10,3 +10,4 @@: the sole addition after one context line
Change10 ==
  Change(PathF,
    <<Hunk(10, 10,
        <<BodyLine(" ", <<"{">>), BodyLine("+", SnippetConsole),
          BodyLine(" ", LineMain), BodyLine(" ", <<"}">>)>>)>>)

\* a file with two hunks; the second holds the line equal to the target
ChangeTwoHunks ==
  Change(PathF,
    <<Hunk(4, 4, <<BodyLine("-", LineExact), BodyLine("+", LineContains)>>),
      Hunk(20, 20, <<BodyLine(" ", LineMain), BodyLine("+", LineExact), BodyLine("+", LineMain)>>)>>)

\* a second file; only it holds a line equal to the target
ChangeG == Change(PathG, <<Hunk(1, 1, <<BodyLine("+", LineExact), BodyLine("-", LineMain)>>)>>)

ChangeHalf == Change(PathF, <<Hunk(7, 7, <<BodyLine("+", LineHalf), BodyLine(" ", LineMain)>>)>>)

ExampleChanges == {<<Change1699>>, <<Change10>>, <<ChangeTwoHunks>>, <<ChangeHalf, ChangeG>>}

Snippets ==
  {SnippetFoo, <<"}">>, <<"{">>, <<"}", ";">>, <<>>, <<" ", " ">>,
   <<"r","e","t","u","r","n"," ",";">>, <<"b","r","e","a","k",";">>,
   <<"c","o","n","t","i","n","u","e",";">>, <<"x"," ","="," ","1",";">>, LineMain}

Hints == {None, Some(7)}

\* the issues handed to the resolver with a diff: file, newLineCode and the AI's line
IssuesFor(chs) ==
  [file : {PathF}, newLineCode : Snippets, new_line : Hints]
  \cup [file : {PathG, PathH}, newLineCode : {SnippetFoo}, new_line : Hints]
  \cup (IF chs \in ExampleChanges
        THEN [file : {PathF}, newLineCode : {SnippetGetImm, SnippetConsole}, new_line : Hints]
        ELSE {})

(***************************************************************************)
(* fixLineNumbersForIssues on a one-issue list                             *)
(***************************************************************************)
NoIssue == [file |-> <<>>, newLineCode |-> <<>>, aiNewLine |-> None,
            new_line |-> None, old_line |-> None]

NoPosition == [old_line |-> None, new_line |-> None, confidence |-> "none"]

\* no file on disk
NoFile == [exists |-> FALSE]

\* no AIReview
NoReview == [verdict |-> "null", inlineComments |-> <<>>]

\* no function is called on its own
NoCall == args = <<>> /\ returned = <<>>

\* no call of executeCursorAgent is under way
NoExecution == execution = <<>>

\* main is not running
NoPosting == requests = <<>> /\ successfullyPostedComments = <<>> /\ postingDone = FALSE

\* STATS of utils/stats as the module is loaded: the counters of the issues and of the posts
NoStats ==
  [criticalCount |-> 0, moderateCount |-> 0, minorCount |-> 0, inlineTotal |-> 0, inlineSuccess |-> 0]

\* no grading yet
NoGrading == [score |-> 0, grade |-> "null"]

\* main has not reached its publishing step
NoPublish ==
  /\ STATS = NoStats
  /\ metrics = <<>>
  /\ gradingResult = NoGrading
  /\ generalNotes = <<>>
  /\ mustPassReviewQuality = TRUE

NoPipeline ==
  /\ phase = "idle"
  /\ cursorApiKey = FALSE
  /\ gitlabNotes = <<>>
  /\ discussionsFile = NoFile
  /\ existingDiscussions = <<>>
  /\ phase1Issues = <<>>
  /\ issuesWithLineNumbers = <<>>
  /\ aiReview = NoReview
  /\ reviewJson = <<>>
  /\ agentRuns = <<>>
  /\ exitCode = None
  /\ NoPosting
  /\ NoPublish

Init ==
  /\ pc = "parse"
  /\ changes \in GeneratedChanges \cup ExampleChanges
  /\ diffContent = createUnifiedDiff(changes)
  /\ fileDiffs = <<>>
  /\ issue = NoIssue
  /\ position = NoPosition
  /\ NoPipeline
  /\ NoCall
  /\ NoExecution

\* const fileDiffs = parseDiffPatch(diffPatchContent)
ParseDiff ==
  /\ pc = "parse"
  /\ fileDiffs' = parseDiffPatch(diffContent)
  /\ pc' = "resolve"
  /\ UNCHANGED <<changes, diffContent, issue, position, outsideResolver>>

\* the loop body: resolve the issue and write the corrected lines back
FixLineNumbers ==
  /\ pc = "resolve"
  /\ \E i \in IssuesFor(changes) :
       LET corrected == findCorrectLineNumbers(i.file, i.newLineCode, i.new_line, fileDiffs)
       IN /\ position' = corrected
          /\ issue' = [file |-> i.file, newLineCode |-> i.newLineCode, aiNewLine |-> i.new_line,
                       new_line |-> corrected.new_line, old_line |-> corrected.old_line]
  /\ pc' = "done"
  /\ UNCHANGED <<changes, diffContent, fileDiffs, outsideResolver>>

Next == ParseDiff \/ FixLineNumbers

Spec == Init /\ [][Next]_vars

(***************************************************************************)
(* parseDiffPatch on arbitrary text: any lines, headers that do not parse  *)
(***************************************************************************)
MaxLines == 3

LinePool ==
  {<<"d","i","f","f"," ","-","-","g","i","t"," ","a","/","f"," ","b","/","f">>,
   <<"d","i","f","f"," ","-","-","g","i","t"," ","a","/","f"," ","b","/","g">>,
   <<"d","i","f","f"," ","-","-","g","i","t"," ","f">>,
   <<"n","e","w"," ","f","i","l","e"," ","m","o","d","e"," ","1","0","0","6","4","4">>,
   <<"d","e","l","e","t","e","d"," ","f","i","l","e"," ","m","o","d","e"," ","1","0","0","6","4","4">>,
   <<"@","@"," ","-","1",",","2"," ","+","3",",","2"," ","@","@">>,
   <<"@","@"," ","-","5"," ","+","7"," ","@","@"," ","f","n">>,
   <<"@","@"," ","-","x"," ","+","y"," ","@","@">>,
   <<"+","x">>, <<"-","x">>, <<" ","x">>, <<>>}

\* split('\n') never returns an empty array
Texts == UNION {[1..k -> LinePool] : k \in 1..MaxLines}

\* the text may open with a valid file header and a valid hunk header
Openings == {<<>>, <<DiffGitA \o PathF \o SpaceB \o PathF,
                      <<"@","@"," ","-","1",",","2"," ","+","3",",","2"," ","@","@">>>>}

InitParse ==
  /\ pc = "parse"
  /\ changes = <<>>
  /\ diffContent \in {opening \o text : opening \in Openings, text \in Texts}
  /\ fileDiffs = <<>>
  /\ issue = NoIssue
  /\ position = NoPosition
  /\ NoPipeline
  /\ NoCall
  /\ NoExecution

NextParse == ParseDiff

SpecParse == InitParse /\ [][NextParse]_vars

(***************************************************************************)
(* services/discussion-manager: the stored comments and the local         *)
(* duplicate check                                                         *)
(***************************************************************************)
UpperCase == <<"A","B","C","D","E","F","G","H","I","J","K","L","M",
               "N","O","P","Q","R","S","T","U","V","W","X","Y","Z">>

LowerCase == <<"a","b","c","d","e","f","g","h","i","j","k","l","m",
               "n","o","p","q","r","s","t","u","v","w","x","y","z">>

toLowerCase(text) ==
  [i \in 1..Len(text) |->
     IF \E k \in 1..Len(UpperCase) : UpperCase[k] = text[i]
     THEN LowerCase[CHOOSE k \in 1..Len(UpperCase) : UpperCase[k] = text[i]]
     ELSE text[i]]

\* \w of a regular expression
IsWordChar(c) ==
  \/ \E k \in 1..Len(LowerCase) : LowerCase[k] = c \/ UpperCase[k] = c
  \/ IsDigit(c)
  \/ c = "_"

\* .replace(/[^\w\s]/g, ' ')
BlankPunctuation(text) ==
  [i \in 1..Len(text) |-> IF IsWordChar(text[i]) \/ text[i] \in Whitespace THEN text[i] ELSE " "]

\* end (exclusive) of the run without whitespace of s that starts at index i
WordEnd(s, i) ==
  LET stops == {j \in i..Len(s) : s[j] \in Whitespace}
  IN IF stops = {} THEN Len(s) + 1 ELSE CHOOSE j \in stops : \A k \in stops : j <= k

\* .split(/\s+/): the maximal runs without whitespace (empty pieces have no length > 3)
SplitWords(text) ==
  {SubSeq(text, i, WordEnd(text, i) - 1) :
     i \in {k \in 1..Len(text) :
              text[k] \notin Whitespace /\ (k = 1 \/ text[k - 1] \in Whitespace)}}

\* new Set(normalize(text)): only words longer than 3 chars
normalize(text) == {w \in SplitWords(BlankPunctuation(toLowerCase(text))) : Len(w) > 3}

\* Jaccard where one empty word set already counts as full similarity
JaccardEitherEmpty(words1, words2) ==
  IF words1 = {} \/ words2 = {} THEN <<1, 1>>
  ELSE <<Cardinality(words1 \cap words2), Cardinality(words1 \cup words2)>>

\* Jaccard similarity of two word sets as the fraction <<intersection.size, union.size>>
Jaccard(words1, words2) ==
  IF words1 = {} /\ words2 = {} THEN <<1, 1>>
  ELSE IF words1 = {} \/ words2 = {} THEN <<0, 1>>
  ELSE <<Cardinality(words1 \cap words2), Cardinality(words1 \cup words2)>>

calculateSimilarity(text1, text2) == Jaccard(normalize(text1), normalize(text2))

\* AbsDiff without Math.abs
SignedDiff(a, b) == a - b

\* Math.abs(existingComment.line - line)
AbsDiff(a, b) == IF a >= b THEN a - b ELSE b - a

\* a number that is neither null nor 0
Truthy(o) == IsSome(o) /\ Unwrap(o) # 0

\* `o || d` on a number
OrElse(o, d) == IF Truthy(o) THEN Unwrap(o) ELSE d

\* the loop body: the comment is on the file, near the line and similar
IsSimilarComment(file, line, commentBody, existingComment, lineToleranceRange) ==
  /\ existingComment.file = Some(file)
  /\ Truthy(existingComment.line)
  /\ AbsDiff(Unwrap(existingComment.line), line) <= lineToleranceRange
  /\ ScoreGt(calculateSimilarity(commentBody, existingComment.body), <<6, 10>>)

isSimilarCommentExists(file, line, commentBody, existingComments, lineToleranceRange) ==
  \E k \in 1..Len(existingComments) :
    IsSimilarComment(file, line, commentBody, existingComments[k], lineToleranceRange)

\* a note of a discussion as a comment
CommentOfNote(note) ==
  [file |-> note.new_path,
   line |-> IF Truthy(note.new_line) THEN note.new_line ELSE None,
   body |-> note.body,
   isSystemNote |-> note.system]

\* comments.filter(c => !c.isSystemNote)
DropSystemNotes(comments) ==
  SelectIdx(comments, {k \in 1..Len(comments) : ~comments[k].isSystemNote}, Len(comments))

\* the notes of the merge request as comments, system notes left out
UserComments(notes) == DropSystemNotes([k \in 1..Len(notes) |-> CommentOfNote(notes[k])])

\* the document written to existing-discussions.json
StoredDiscussions(notes) == [exists |-> TRUE, comments |-> UserComments(notes)]

\* existingData.inlineComments || [] of a file that may be missing
ReadInlineComments(file) ==
  IF ~file.exists THEN <<>>
  ELSE IF "inlineComments" \in DOMAIN file THEN file.inlineComments
  ELSE <<>>

(***************************************************************************)
(* utils/diff-line-calculator: the positions of the single-phase review   *)
(***************************************************************************)
\* end (exclusive) of the run of whitespace of s that starts at index i
WhitespaceEnd(s, i) ==
  LET stops == {j \in i..Len(s) : s[j] \notin Whitespace}
  IN IF stops = {} THEN Len(s) + 1 ELSE CHOOSE j \in stops : \A k \in stops : j <= k

\* the match once both ranges and the three runs of whitespace are read
HunkInfo(line, w1, o, w2, n, w3) ==
  [ok |-> /\ startsWith(line, AtAt)
          /\ w1 > 3 /\ HasAt(line, w1, <<"-">>) /\ o.ok
          /\ w2 > o.next /\ HasAt(line, w2, <<"+">>) /\ n.ok
          /\ w3 > n.next /\ HasAt(line, w3, AtAt),
   oldStart |-> o.start, oldCount |-> o.count,
   newStart |-> n.start, newCount |-> n.count]

HunkInfoAfterNew(line, w1, o, w2, n) == HunkInfo(line, w1, o, w2, n, WhitespaceEnd(line, n.next))

HunkInfoAfterGap(line, w1, o, w2) == HunkInfoAfterNew(line, w1, o, w2, RangeAt(line, w2 + 1))

HunkInfoAfterOld(line, w1, o) == HunkInfoAfterGap(line, w1, o, WhitespaceEnd(line, o.next))

HunkInfoAfterAt(line, w1) == HunkInfoAfterOld(line, w1, RangeAt(line, w1 + 1))

\* line.match(/^@@\s+-(\d+)(?:,(\d+))?\s+\+(\d+)(?:,(\d+))?\s+@@/)
MatchHunkInfo(line) == HunkInfoAfterAt(line, WhitespaceEnd(line, 3))

\* one turn of the loop of parseDiffHunks on a line and its match
parseDiffHunksStep(st, line, hunkMatch) ==
  IF hunkMatch.ok
  THEN [hunks |-> st.hunks \o st.currentHunk,
        currentHunk |-> <<[oldStart |-> hunkMatch.oldStart, oldCount |-> hunkMatch.oldCount,
                           newStart |-> hunkMatch.newStart, newCount |-> hunkMatch.newCount,
                           lines |-> <<>>]>>]
  ELSE IF /\ st.currentHunk # <<>>
          /\ (startsWith(line, <<"+">>) \/ startsWith(line, <<"-">>) \/ startsWith(line, <<" ">>))
  THEN [st EXCEPT !.currentHunk[1].lines = Append(@, line)]
  ELSE st

RECURSIVE parseDiffHunksLoop(_, _)
\* the loop of parseDiffHunks after n lines: the hunks pushed and the current hunk
parseDiffHunksLoop(lines, n) ==
  IF n = 0 THEN [hunks |-> <<>>, currentHunk |-> <<>>]
  ELSE parseDiffHunksStep(parseDiffHunksLoop(lines, n - 1), lines[n], MatchHunkInfo(lines[n]))

\* the last hunk is saved when the loop ends
SaveLastHunk(st) == st.hunks \o st.currentHunk

parseDiffHunks(diff) == SaveLastHunk(parseDiffHunksLoop(diff, Len(diff)))

RECURSIVE WalkHunkLines(_, _, _, _, _)
\* the loop over hunk.lines from line i on: the position found, or none
WalkHunkLines(lines, i, currentNewLine, currentOldLine, targetLineNumber) ==
  IF i > Len(lines) THEN None
  ELSE IF startsWith(lines[i], <<"-">>)
       THEN WalkHunkLines(lines, i + 1, currentNewLine, currentOldLine + 1, targetLineNumber)
  ELSE IF startsWith(lines[i], <<"+">>)
       THEN IF currentNewLine = targetLineNumber
            THEN Some([new_line |-> currentNewLine, old_line |-> None])
            ELSE WalkHunkLines(lines, i + 1, currentNewLine + 1, currentOldLine, targetLineNumber)
  ELSE IF currentNewLine = targetLineNumber
       THEN Some([new_line |-> currentNewLine, old_line |-> Some(currentOldLine)])
       ELSE WalkHunkLines(lines, i + 1, currentNewLine + 1, currentOldLine + 1, targetLineNumber)

\* the hunk is walked only when the target lies in its new range
WalkHunk(hunk, targetLineNumber) ==
  IF /\ targetLineNumber >= hunk.newStart
     /\ targetLineNumber <= hunk.newStart + hunk.newCount - 1
  THEN WalkHunkLines(hunk.lines, 1, hunk.newStart, hunk.oldStart, targetLineNumber)
  ELSE None

RECURSIVE SearchHunks(_, _, _)
\* a position found in hunk h is returned, otherwise the loop goes on
FoundOrNextHunk(found, hunks, h, targetLineNumber) ==
  IF IsSome(found) THEN Unwrap(found) ELSE SearchHunks(hunks, h + 1, targetLineNumber)

\* the loop over the hunks from hunk h on
SearchHunks(hunks, h, targetLineNumber) ==
  IF h > Len(hunks) THEN [new_line |-> targetLineNumber, old_line |-> None]
  ELSE FoundOrNextHunk(WalkHunk(hunks[h], targetLineNumber), hunks, h, targetLineNumber)

\* PositionInHunks that always answers with the fallback of an added line
AssumeAdded(hunks, targetLineNumber) == [new_line |-> targetLineNumber, old_line |-> None]

\* calculateLinePosition once the hunks are parsed
PositionInHunks(hunks, targetLineNumber) ==
  IF hunks = <<>> THEN [new_line |-> targetLineNumber, old_line |-> None]
  ELSE SearchHunks(hunks, 1, targetLineNumber)

\* issue.new_line || issue.line || 0 looked up in the hunks of the file's diff
calculateLinePosition(providedLine, fileDiff) ==
  PositionInHunks(parseDiffHunks(fileDiff), providedLine)

\* diffMap.get(filePath): the diff of the last change with that new_path
DiffOfFile(filePath, diffChanges) ==
  LET ks == {k \in 1..Len(diffChanges) : diffChanges[k].new_path = filePath}
  IN IF ks = {} THEN None
     ELSE Some(DiffOf(diffChanges[CHOOSE k \in ks : \A j \in ks : j <= k]))

\* the loop body of calculateLinePositionsForIssues once the diff is looked up
PositionInDiff(providedLine, fileDiff) ==
  IF fileDiff = None THEN [new_line |-> providedLine, old_line |-> None]
  ELSE calculateLinePosition(providedLine, Unwrap(fileDiff))

calculateLinePositionForIssue(filePath, providedLine, diffChanges) ==
  PositionInDiff(providedLine, DiffOfFile(filePath, diffChanges))

(***************************************************************************)
(* One run of main from the loading of the stored discussions to the      *)
(* review it publishes: runThreePhaseReview (Discover, Resolve, Dedupe)   *)
(* and, when it throws, runCursorAgentReview.  The answers of the          *)
(* cursor-agent process and the notes GitLab holds are the inputs.         *)
(***************************************************************************)
MaxIssues == 2

BodyNullCheck == <<"M","i","s","s","i","n","g"," ","n","u","l","l"," ","c","h","e","c","k"," ","o","n"," ","a","u","t","h","H","e","a","d","e","r","s">>

BodyNullCheckLoud == <<"m","i","s","s","i","n","g"," ","N","U","L","L"," ","c","h","e","c","k",","," ","o","n"," ","a","u","t","h","H","e","a","d","e","r","s","!">>

BodyUnused == <<"U","n","u","s","e","d"," ","v","a","r","i","a","b","l","e">>

\* the issues Phase 1 can report
Phase1Pool ==
  {[file |-> PathF, codeSnippet |-> SnippetFoo, diff_line |-> Some(7),
    issue |-> BodyNullCheck, severity |-> "critical"],
   [file |-> PathF, codeSnippet |-> <<"}">>, diff_line |-> Some(7),
    issue |-> BodyUnused, severity |-> "moderate"],
   [file |-> PathG, codeSnippet |-> SnippetFoo, diff_line |-> None,
    issue |-> BodyNullCheck, severity |-> "minor"],
   [file |-> PathF, codeSnippet |-> LineMain, diff_line |-> Some(3),
    issue |-> BodyUnused, severity |-> "minor"]}

Phase1Lists == UNION {[1..k -> Phase1Pool] : k \in 0..MaxIssues}

\* the issues the single-phase review can report
SinglePhasePool ==
  {[file |-> PathF, line |-> Some(21), issue |-> BodyNullCheck, severity |-> "critical"],
   [file |-> PathG, line |-> None, issue |-> BodyUnused, severity |-> "minor"]}

SinglePhaseLists == UNION {[1..k -> SinglePhasePool] : k \in 0..MaxIssues}

Note(new_path, new_line, body, system) ==
  [new_path |-> new_path, new_line |-> new_line, body |-> body, system |-> system]

\* the notes of the merge request
NoteLists ==
  {<<>>,
   <<Note(Some(PathF), Some(22), BodyNullCheckLoud, FALSE)>>,
   <<Note(None, None, BodyUnused, TRUE), Note(Some(PathF), Some(1), BodyNullCheckLoud, FALSE)>>}

PipelineChanges == {<<ChangeTwoHunks>>, <<ChangeHalf, ChangeG>>}

\* the ways a call of cursor-agent fails: exit code, spawn error, timer, output that is no JSON
Failures == {"exit", "error", "timeout", "unparsable"}

\* an issue that no phase of this run produced
ForeignComment ==
  [file |-> PathH, line |-> None, diff_line |-> None, new_line |-> Some(99), old_line |-> None,
   newLineCode |-> <<>>, severity |-> "critical", message |-> BodyUnused]

\* what Phase 3 can answer: any selection of the issues it was given, or an issue of its own
Phase3Answers(given) ==
  {SelectIdx(given, K, Len(given)) : K \in SUBSET (1..Len(given))} \cup {<<ForeignComment>>}

RunStarted(runs, purpose) == Append(runs, [for |-> purpose, outcome |-> "running"])

RunEnded(runs, outcome) == [runs EXCEPT ![Len(runs)].outcome = outcome]

CountSeverity(comments, severity) ==
  Cardinality({k \in 1..Len(comments) : comments[k].severity = severity})

\* the review returned when there is nothing to report
ApprovedReview == [verdict |-> "APPROVED", inlineComments |-> <<>>]

\* analyzeAIReview: the inline comments of the review are counted by severity
analyzeAIReview(stats, review) ==
  [stats EXCEPT !.criticalCount = @ + CountSeverity(review.inlineComments, "critical"),
                !.moderateCount = @ + CountSeverity(review.inlineComments, "moderate"),
                !.minorCount = @ + CountSeverity(review.inlineComments, "minor")]

\* PushResolved without the continue of the issues that are not located
PushEvery(located, i, p) ==
  Append(located, [file |-> i.file, line |-> None, diff_line |-> i.diff_line,
                   new_line |-> p.new_line, old_line |-> p.old_line,
                   newLineCode |-> i.codeSnippet, severity |-> i.severity,
                   message |-> i.issue])

\* the loop body of Phase 2: an issue that is located joins the list
PushResolved(located, i, p) ==
  IF p.confidence \in {"exact", "fuzzy"}
  THEN Append(located, [file |-> i.file, line |-> None, diff_line |-> i.diff_line,
                        new_line |-> p.new_line, old_line |-> p.old_line,
                        newLineCode |-> i.codeSnippet, severity |-> i.severity,
                        message |-> i.issue])
  ELSE located

RECURSIVE ResolveIssuesLoop(_, _, _)
\* the loop of Phase 2 after n issues: the issues located, in order
ResolveIssuesLoop(issues, n, diffHunks) ==
  IF n = 0 THEN <<>>
  ELSE PushResolved(ResolveIssuesLoop(issues, n - 1, diffHunks), issues[n],
                    findCorrectLineNumbers(issues[n].file, issues[n].codeSnippet,
                                           issues[n].diff_line, diffHunks))

\* Step 2 of runCursorAgentReview on one issue: the provided line and the position
WithPosition(i, providedNewLine, p) ==
  [file |-> i.file, line |-> providedNewLine,
   new_line |-> p.new_line, old_line |-> p.old_line,
   issue |-> i.issue, severity |-> i.severity]

LocateIssue(i, providedNewLine, diffChanges) ==
  WithPosition(i, providedNewLine, calculateLinePositionForIssue(i.file, providedNewLine, diffChanges))

\* Step 3 of runCursorAgentReview: the filter that drops the duplicates
IsDuplicate(i, comments) ==
  isSimilarCommentExists(i.file, IF i.new_line # 0 THEN i.new_line ELSE i.line, i.issue, comments, 3)

DropDuplicates(issues, comments) ==
  SelectIdx(issues, {k \in 1..Len(issues) : ~IsDuplicate(issues[k], comments)}, Len(issues))

\* Steps 2 and 3 of runCursorAgentReview on the issues the agent reported
ProcessSinglePhaseIssues(issues, diffChanges, comments) ==
  DropDuplicates([k \in 1..Len(issues) |->
                    LocateIssue(issues[k], OrElse(issues[k].line, 0), diffChanges)],
                 comments)

\* transformCursorAgentOutput: the inline comments of the single-phase review
transformCursorAgentOutput(issues) ==
  [k \in 1..Len(issues) |->
     [file |-> issues[k].file,
      line |-> Some(IF issues[k].line # 0 THEN issues[k].line ELSE 1),
      diff_line |-> None, new_line |-> None, old_line |-> None, newLineCode |-> <<>>,
      severity |-> issues[k].severity, message |-> issues[k].issue]]

InitPipeline ==
  /\ pc = "idle"
  /\ changes \in PipelineChanges
  /\ diffContent = createUnifiedDiff(changes)
  /\ fileDiffs = <<>>
  /\ issue = NoIssue
  /\ position = NoPosition
  /\ phase = "start"
  /\ cursorApiKey \in BOOLEAN
  /\ gitlabNotes \in NoteLists
  /\ discussionsFile \in {NoFile, StoredDiscussions(gitlabNotes)}
  /\ existingDiscussions = <<>>
  /\ phase1Issues = <<>>
  /\ issuesWithLineNumbers = <<>>
  /\ aiReview = NoReview
  /\ reviewJson = <<>>
  /\ agentRuns = <<>>
  /\ exitCode = None
  /\ NoPosting
  /\ NoPublish
  /\ NoCall
  /\ NoExecution

\* main loads the stored discussions and enters Phase 1, which starts cursor-agent
StartReview ==
  /\ phase = "start"
  /\ existingDiscussions' = ReadInlineComments(discussionsFile)
  /\ agentRuns' = RunStarted(agentRuns, "phase1")
  /\ phase' = "discover"
  /\ UNCHANGED <<pc, changes, diffContent, fileDiffs, issue, position, cursorApiKey, gitlabNotes,
                 discussionsFile, phase1Issues, issuesWithLineNumbers, aiReview, reviewJson, exitCode,
                 postingVars, STATS, publishVars, outsidePipeline>>

\* the catch of main: runCursorAgentReview up to the start of its cursor-agent
FallBackToSinglePhase(runs) ==
  IF ~cursorApiKey
  THEN /\ agentRuns' = runs
       /\ phase' = "exited"
       /\ exitCode' = Some(0)
       /\ UNCHANGED discussionsFile
  ELSE /\ discussionsFile' = StoredDiscussions(gitlabNotes)
       /\ agentRuns' = RunStarted(runs, "single")
       /\ phase' = "single"
       /\ UNCHANGED exitCode

\* DiscoverSucceeds without the early return on an empty list
DiscoverAlwaysResolves ==
  /\ phase = "discover"
  /\ \E issues \in Phase1Lists : phase1Issues' = issues
  /\ phase' = "resolve"
  /\ agentRuns' = RunEnded(agentRuns, "ok")
  /\ UNCHANGED <<pc, changes, diffContent, fileDiffs, issue, position, cursorApiKey, gitlabNotes,
                 discussionsFile, existingDiscussions, issuesWithLineNumbers, aiReview, reviewJson,
                 exitCode, postingVars, STATS, publishVars, outsidePipeline>>

\* Phase 1 answers with a list of issues
DiscoverSucceeds ==
  /\ phase = "discover"
  /\ \E issues \in Phase1Lists :
       /\ phase1Issues' = issues
       /\ IF issues = <<>>
          THEN aiReview' = ApprovedReview /\ phase' = "done"
          ELSE aiReview' = aiReview /\ phase' = "resolve"
  /\ STATS' = IF phase' = "done" THEN analyzeAIReview(STATS, aiReview') ELSE STATS
  /\ agentRuns' = RunEnded(agentRuns, "ok")
  /\ UNCHANGED <<pc, changes, diffContent, fileDiffs, issue, position, cursorApiKey, gitlabNotes,
                 discussionsFile, existingDiscussions, issuesWithLineNumbers, reviewJson, exitCode,
                 postingVars, publishVars, outsidePipeline>>

\* Phase 1 rejects or its output does not parse: runThreePhaseReview throws
DiscoverFails ==
  /\ phase = "discover"
  /\ \E failure \in Failures : FallBackToSinglePhase(RunEnded(agentRuns, failure))
  /\ UNCHANGED <<pc, changes, diffContent, fileDiffs, issue, position, cursorApiKey, gitlabNotes,
                 existingDiscussions, phase1Issues, issuesWithLineNumbers, aiReview, reviewJson,
                 postingVars, STATS, publishVars, outsidePipeline>>

\* Phase 2, and the start of Phase 3 when an issue is left
ResolveIssues ==
  /\ phase = "resolve"
  /\ fileDiffs' = parseDiffPatch(diffContent)
  /\ issuesWithLineNumbers' = ResolveIssuesLoop(phase1Issues, Len(phase1Issues), fileDiffs')
  /\ IF issuesWithLineNumbers' = <<>>
     THEN aiReview' = ApprovedReview /\ phase' = "done" /\ UNCHANGED agentRuns
     ELSE aiReview' = aiReview /\ phase' = "dedupe" /\ agentRuns' = RunStarted(agentRuns, "phase3")
  /\ STATS' = IF phase' = "done" THEN analyzeAIReview(STATS, aiReview') ELSE STATS
  /\ UNCHANGED <<pc, changes, diffContent, issue, position, cursorApiKey, gitlabNotes,
                 discussionsFile, existingDiscussions, phase1Issues, reviewJson, exitCode,
                 postingVars, publishVars, outsidePipeline>>

\* Phase 3 answers with its filteredIssues, which are returned as they are
DedupeSucceeds ==
  /\ phase = "dedupe"
  /\ \E filteredIssues \in Phase3Answers(issuesWithLineNumbers) :
       aiReview' = [verdict |-> IF CountSeverity(filteredIssues, "critical") > 0
                                THEN "CHANGES REQUESTED" ELSE "APPROVE WITH MINOR CHANGES",
                    inlineComments |-> filteredIssues]
  /\ STATS' = analyzeAIReview(STATS, aiReview')
  /\ agentRuns' = RunEnded(agentRuns, "ok")
  /\ phase' = "done"
  /\ UNCHANGED <<pc, changes, diffContent, fileDiffs, issue, position, cursorApiKey, gitlabNotes,
                 discussionsFile, existingDiscussions, phase1Issues, issuesWithLineNumbers,
                 reviewJson, exitCode,
                 postingVars, publishVars, outsidePipeline>>

\* Phase 3 rejects or its output does not parse: runThreePhaseReview throws
DedupeFails ==
  /\ phase = "dedupe"
  /\ \E failure \in Failures : FallBackToSinglePhase(RunEnded(agentRuns, failure))
  /\ UNCHANGED <<pc, changes, diffContent, fileDiffs, issue, position, cursorApiKey, gitlabNotes,
                 existingDiscussions, phase1Issues, issuesWithLineNumbers, aiReview, reviewJson,
                 postingVars, STATS, publishVars, outsidePipeline>>

\* the single-phase review answers: positions, local duplicate filter, transformation
SinglePhaseSucceeds ==
  /\ phase = "single"
  /\ \E issues \in SinglePhaseLists :
       reviewJson' = ProcessSinglePhaseIssues(issues, changes, discussionsFile.comments)
  /\ aiReview' = [verdict |-> "null", inlineComments |-> transformCursorAgentOutput(reviewJson')]
  /\ STATS' = analyzeAIReview(STATS, aiReview')
  /\ agentRuns' = RunEnded(agentRuns, "ok")
  /\ phase' = "done"
  /\ UNCHANGED <<pc, changes, diffContent, fileDiffs, issue, position, cursorApiKey, gitlabNotes,
                 discussionsFile, existingDiscussions, phase1Issues, issuesWithLineNumbers, exitCode,
                 postingVars, publishVars, outsidePipeline>>

\* the single-phase review rejects or cannot be parsed: process.exit(1)
SinglePhaseFails ==
  /\ phase = "single"
  /\ \E failure \in Failures : agentRuns' = RunEnded(agentRuns, failure)
  /\ phase' = "exited"
  /\ exitCode' = Some(1)
  /\ UNCHANGED <<pc, changes, diffContent, fileDiffs, issue, position, cursorApiKey, gitlabNotes,
                 discussionsFile, existingDiscussions, phase1Issues, issuesWithLineNumbers,
                 aiReview, reviewJson,
                 postingVars, STATS, publishVars, outsidePipeline>>

\* PositionOf that sets old_path whether or not an old line is passed
PositionWithOldPath(filePath, lineNumber, oldLine) ==
  [old_path |-> Some(filePath), new_path |-> Some(filePath),
   old_line |-> oldLine, new_line |-> Some(lineNumber)]

\* the position of the discussion that postInlineComment sends; None is a field left out
PositionOf(filePath, lineNumber, oldLine) ==
  IF oldLine = None
  THEN [old_path |-> None, new_path |-> Some(filePath), old_line |-> None, new_line |-> Some(lineNumber)]
  ELSE [old_path |-> Some(filePath), new_path |-> Some(filePath),
        old_line |-> oldLine, new_line |-> Some(lineNumber)]

\* const targetLineNumber = aiComment.new_line || aiComment.line || 0
TargetLineNumber(aiComment) == OrElse(aiComment.new_line, OrElse(aiComment.line, 0))

\* the request of postInlineComment for a comment, and whether GitLab accepted it
RequestFor(aiComment, success) ==
  [position |-> PositionOf(aiComment.file, TargetLineNumber(aiComment), aiComment.old_line),
   success |-> success]

\* the comment the loop of postAIInlineComments is at
NextComment == aiReview.inlineComments[Len(requests) + 1]

Posting == phase = "done" /\ ~postingDone /\ Len(requests) < Len(aiReview.inlineComments)

\* PostSucceeds without STATS.inlineSuccess++
PostSucceedsUncounted ==
  /\ Posting
  /\ requests' = Append(requests, RequestFor(NextComment, TRUE))
  /\ successfullyPostedComments' = Append(successfullyPostedComments, NextComment)
  /\ STATS' = [STATS EXCEPT !.inlineTotal = @ + 1]
  /\ UNCHANGED <<pc, changes, diffContent, fileDiffs, issue, position, phase, cursorApiKey,
                 gitlabNotes, discussionsFile, existingDiscussions, phase1Issues,
                 issuesWithLineNumbers, aiReview, reviewJson, agentRuns, exitCode, postingDone,
                 publishVars, outsidePipeline>>

\* one turn of the loop: GitLab accepts the discussion
PostSucceeds ==
  /\ Posting
  /\ requests' = Append(requests, RequestFor(NextComment, TRUE))
  /\ successfullyPostedComments' = Append(successfullyPostedComments, NextComment)
  /\ STATS' = [STATS EXCEPT !.inlineTotal = @ + 1, !.inlineSuccess = @ + 1]
  /\ UNCHANGED <<pc, changes, diffContent, fileDiffs, issue, position, phase, cursorApiKey,
                 gitlabNotes, discussionsFile, existingDiscussions, phase1Issues,
                 issuesWithLineNumbers, aiReview, reviewJson, agentRuns, exitCode, postingDone,
                 publishVars, outsidePipeline>>

\* PostFails that leaves the loop
PostFailsAndStops ==
  /\ Posting
  /\ requests' = Append(requests, RequestFor(NextComment, FALSE))
  /\ STATS' = [STATS EXCEPT !.inlineTotal = @ + 1]
  /\ postingDone' = TRUE
  /\ UNCHANGED <<pc, changes, diffContent, fileDiffs, issue, position, phase, cursorApiKey,
                 gitlabNotes, discussionsFile, existingDiscussions, phase1Issues,
                 issuesWithLineNumbers, aiReview, reviewJson, agentRuns, exitCode,
                 successfullyPostedComments, publishVars, outsidePipeline>>

\* one turn of the loop: the request fails, postInlineComment returns false
PostFails ==
  /\ Posting
  /\ requests' = Append(requests, RequestFor(NextComment, FALSE))
  /\ STATS' = [STATS EXCEPT !.inlineTotal = @ + 1]
  /\ UNCHANGED <<pc, changes, diffContent, fileDiffs, issue, position, phase, cursorApiKey,
                 gitlabNotes, discussionsFile, existingDiscussions, phase1Issues,
                 issuesWithLineNumbers, aiReview, reviewJson, agentRuns, exitCode,
                 successfullyPostedComments, postingDone, publishVars, outsidePipeline>>

\* postAIInlineComments returns: no comments at all, or the loop is over
ReturnPosted ==
  /\ phase = "done" /\ ~postingDone
  /\ Len(requests) = Len(aiReview.inlineComments)
  /\ postingDone' = TRUE
  /\ UNCHANGED <<pc, changes, diffContent, fileDiffs, issue, position, phase, cursorApiKey,
                 gitlabNotes, discussionsFile, existingDiscussions, phase1Issues,
                 issuesWithLineNumbers, aiReview, reviewJson, agentRuns, exitCode,
                 requests, successfullyPostedComments, STATS, publishVars, outsidePipeline>>

NextPipeline ==
  \/ PostSucceeds
  \/ PostFails
  \/ ReturnPosted
  \/ StartReview
  \/ DiscoverSucceeds
  \/ DiscoverFails
  \/ ResolveIssues
  \/ DedupeSucceeds
  \/ DedupeFails
  \/ SinglePhaseSucceeds
  \/ SinglePhaseFails

SpecPipeline == InitPipeline /\ [][NextPipeline]_vars

(***************************************************************************)
(* isSimilarCommentExists called on its own: an issue, the existing        *)
(* comments and the line tolerance                                         *)
(***************************************************************************)
MaxComments == 2

BodyConsider == <<"C","o","n","s","i","d","e","r"," ","a","d","d","i","n","g"," ","n","u","l","l"," ","v","a","l","i","d","a","t","i","o","n"," ","f","o","r"," ","a","u","t","h","H","e","a","d","e","r","s">>

BodyPotential == <<"P","o","t","e","n","t","i","a","l"," ","N","u","l","l","P","o","i","n","t","e","r","E","x","c","e","p","t","i","o","n"," ","-"," ","m","i","s","s","i","n","g"," ","n","u","l","l"," ","c","h","e","c","k"," ","o","n"," ","a","u","t","h","H","e","a","d","e","r","s">>

BodyAlphaDelta == <<"a","l","p","h","a"," ","b","e","t","a"," ","g","a","m","m","a"," ","d","e","l","t","a">>

\* three of five words shared with BodyAlphaDelta: similarity 0.6
BodyAlphaOmega == <<"a","l","p","h","a"," ","b","e","t","a"," ","g","a","m","m","a"," ","o","m","e","g","a">>

\* three of four words shared with BodyAlphaDelta: similarity 0.75
BodyAlphaLoud == <<"A","l","p","h","a",","," ","b","e","t","a",";"," ","G","A","M","M","A">>

\* no word longer than 3 characters
BodyFixIt == <<"f","i","x"," ","i","t"," ","n","o","w">>

BodyToDo == <<"t","o"," ","d","o">>

ExistingComment(file, line, body) ==
  [file |-> file, line |-> line, body |-> body, isSystemNote |-> FALSE]

\* stored comments: a line is null or a line of the file
CommentPool ==
  {ExistingComment(Some(PathF), Some(701), BodyConsider),
   ExistingComment(Some(PathF), Some(701), BodyAlphaLoud),
   ExistingComment(Some(PathF), Some(700), BodyAlphaOmega),
   ExistingComment(Some(PathF), Some(707), BodyAlphaLoud),
   ExistingComment(Some(PathG), Some(703), BodyAlphaLoud),
   ExistingComment(Some(PathF), None, BodyAlphaLoud),
   ExistingComment(None, None, BodyAlphaLoud),
   ExistingComment(Some(PathF), Some(702), BodyToDo)}

CommentLists == UNION {[1..k -> CommentPool] : k \in 0..MaxComments}

IssueBodies == {BodyPotential, BodyAlphaDelta, BodyFixIt, <<>>}

DuplicateCalls ==
  [file : {PathF, PathG}, line : {703, 704, 0}, commentBody : IssueBodies,
   existingComments : CommentLists, lineToleranceRange : {3, 1}]

InitDuplicate ==
  /\ pc = "idle"
  /\ changes = <<>>
  /\ diffContent = <<>>
  /\ fileDiffs = <<>>
  /\ issue = NoIssue
  /\ position = NoPosition
  /\ NoPipeline
  /\ args \in DuplicateCalls
  /\ returned = <<>>
  /\ NoExecution

\* what a call of a function on its own leaves alone
outsideCall == <<pc, changes, diffContent, fileDiffs, issue, position, pipelineVars, execution>>

CheckDuplicate ==
  /\ returned = <<>>
  /\ returned' = <<isSimilarCommentExists(args.file, args.line, args.commentBody,
                                          args.existingComments, args.lineToleranceRange)>>
  /\ UNCHANGED <<args, outsideCall>>

NextDuplicate == CheckDuplicate

SpecDuplicate == InitDuplicate /\ [][NextDuplicate]_vars

(***************************************************************************)
(* JSON.parse on the documents of the model: objects, arrays, strings and  *)
(* unsigned integers                                                       *)
(***************************************************************************)
JsonSpace == {" ", "\t", "\n", "\r"}

RECURSIVE SkipSpace(_, _)
\* the first index from i on that holds no white space
SkipSpace(s, i) == IF i <= Len(s) /\ s[i] \in JsonSpace THEN SkipSpace(s, i + 1) ELSE i

JsonValue(type, text, keys, items) == [type |-> type, text |-> text, keys |-> keys, items |-> items]

\* undefined
NoValue == JsonValue("undefined", <<>>, <<>>, <<>>)

\* a value that was read and the index after it; next = 0 is a SyntaxError
Read(next, value) == [next |-> next, value |-> value]

SyntaxError == Read(0, NoValue)

\* the escapes of the model's documents
Escapes == {"\"", "\\", "/", "n", "t", "r"}

Unescape(c) == IF c = "n" THEN "\n" ELSE IF c = "t" THEN "\t" ELSE IF c = "r" THEN "\r" ELSE c

RECURSIVE ReadString(_, _, _)
\* the string whose characters start at index i, its opening quote read
ReadString(s, i, text) ==
  IF i > Len(s) THEN SyntaxError
  ELSE IF s[i] = "\"" THEN Read(i + 1, JsonValue("string", text, <<>>, <<>>))
  ELSE IF s[i] \in {"\n", "\t", "\r"} THEN SyntaxError
  ELSE IF s[i] = "\\"
       THEN IF i + 1 <= Len(s) /\ s[i + 1] \in Escapes
            THEN ReadString(s, i + 2, Append(text, Unescape(s[i + 1])))
            ELSE SyntaxError
  ELSE ReadString(s, i + 1, Append(text, s[i]))

ReadNumber(s, i, end) == Read(end, JsonValue("number", SubSeq(s, i, end - 1), <<>>, <<>>))

RECURSIVE ReadValue(_, _), ReadItems(_, _, _), ReadMembers(_, _, _, _)

ItemSeparator(s, j, items) ==
  IF HasAt(s, j, <<",">>) THEN ReadItems(s, SkipSpace(s, j + 1), items)
  ELSE IF HasAt(s, j, <<"]">>) THEN Read(j + 1, JsonValue("array", <<>>, <<>>, items))
  ELSE SyntaxError

AfterItem(s, item, items) ==
  IF item.next = 0 THEN SyntaxError
  ELSE ItemSeparator(s, SkipSpace(s, item.next), Append(items, item.value))

ReadItems(s, j, items) == AfterItem(s, ReadValue(s, j), items)

ReadArray(s, j) ==
  IF HasAt(s, j, <<"]">>) THEN Read(j + 1, JsonValue("array", <<>>, <<>>, <<>>))
  ELSE ReadItems(s, j, <<>>)

MemberSeparator(s, j, keys, items) ==
  IF HasAt(s, j, <<",">>) THEN ReadMembers(s, SkipSpace(s, j + 1), keys, items)
  ELSE IF HasAt(s, j, <<"}">>) THEN Read(j + 1, JsonValue("object", <<>>, keys, items))
  ELSE SyntaxError

AfterMember(s, member, keys, items) ==
  IF member.next = 0 THEN SyntaxError
  ELSE MemberSeparator(s, SkipSpace(s, member.next), keys, Append(items, member.value))

MemberValue(s, j, keys, items) ==
  IF HasAt(s, j, <<":">>) THEN AfterMember(s, ReadValue(s, SkipSpace(s, j + 1)), keys, items)
  ELSE SyntaxError

AfterKey(s, key, keys, items) ==
  IF key.next = 0 THEN SyntaxError
  ELSE MemberValue(s, SkipSpace(s, key.next), Append(keys, key.value.text), items)

ReadMembers(s, j, keys, items) ==
  IF HasAt(s, j, <<"\"">>) THEN AfterKey(s, ReadString(s, j + 1, <<>>), keys, items)
  ELSE SyntaxError

ReadObject(s, j) ==
  IF HasAt(s, j, <<"}">>) THEN Read(j + 1, JsonValue("object", <<>>, <<>>, <<>>))
  ELSE ReadMembers(s, j, <<>>, <<>>)

\* the value that starts at index i
ReadValue(s, i) ==
  IF i > Len(s) THEN SyntaxError
  ELSE IF s[i] = "\"" THEN ReadString(s, i + 1, <<>>)
  ELSE IF s[i] = "[" THEN ReadArray(s, SkipSpace(s, i + 1))
  ELSE IF s[i] = "{" THEN ReadObject(s, SkipSpace(s, i + 1))
  ELSE IF IsDigit(s[i]) THEN ReadNumber(s, i, DigitsEnd(s, i))
  ELSE SyntaxError

\* nothing but white space may follow the value
WholeText(s, read) ==
  IF read.next # 0 /\ SkipSpace(s, read.next) = Len(s) + 1 THEN read ELSE SyntaxError

JsonParse(s) == WholeText(s, ReadValue(s, SkipSpace(s, 1)))

\* the property of an object, the last of the members of that name
Field(value, key) ==
  IF value.type = "object" /\ \E k \in 1..Len(value.keys) : value.keys[k] = key
  THEN value.items[CHOOSE k \in 1..Len(value.keys) :
                     value.keys[k] = key /\ \A m \in (k + 1)..Len(value.keys) : value.keys[m] # key]
  ELSE NoValue

(***************************************************************************)
(* runCursorAgentReview: from the output of cursor-agent to reviewData     *)
(***************************************************************************)
\* String.prototype.trim on a text of several lines
TrimText(s) ==
  IF \A i \in 1..Len(s) : s[i] \in JsonSpace THEN <<>>
  ELSE SubSeq(s, CHOOSE i \in 1..Len(s) : s[i] \notin JsonSpace /\ \A j \in 1..(i - 1) : s[j] \in JsonSpace,
                 CHOOSE i \in 1..Len(s) : s[i] \notin JsonSpace /\ \A j \in (i + 1)..Len(s) : s[j] \in JsonSpace)

\* the text from the first brace on
FromFirstBrace(s) == IF indexOf(s, <<"{">>) > 1 THEN substring(s, indexOf(s, <<"{">>) - 1) ELSE s

\* the text up to the last brace
ToLastBrace(s) ==
  IF lastIndexOf(s, <<"}">>) > 1 /\ lastIndexOf(s, <<"}">>) < Len(s)
  THEN SubSeq(s, 1, lastIndexOf(s, <<"}">>))
  ELSE s

\* cleanOutput before the repair of a truncated document
cleanOutput(stdout) == ToLastBrace(FromFirstBrace(TrimText(stdout)))

endsWith(s, p) == Len(s) >= Len(p) /\ SubSeq(s, Len(s) - Len(p) + 1, Len(s)) = p

Greatest(S) == IF S = {} THEN 0 ELSE CHOOSE i \in S : \A j \in S : i >= j

\* /\},\s*\n\s*\{/ matches at index i, where its brace stands
IsCompleteIssueAt(s, i) ==
  /\ HasAt(s, i, <<"}", ",">>)
  /\ HasAt(s, SkipSpace(s, i + 2), <<"{">>)
  /\ \E n \in (i + 2)..(SkipSpace(s, i + 2) - 1) : s[n] = "\n"

\* the index of the brace of the last match, 0 without a match
lastCompleteIssuePos(s) == Greatest({i \in 1..Len(s) : IsCompleteIssueAt(s, i)})

PriorityKey ==
  <<"\"","p","r","i","o","r","i","t","y","\"",":">>

Priorities == {<<"H","i","g","h">>, <<"M","e","d","i","u","m">>, <<"L","o","w">>}

\* the index where the priority that is quoted from index q on ends with its brace, or 0
PriorityEnd(s, q) ==
  Greatest({SkipSpace(s, q + Len(p) + 2) : p \in {r \in Priorities :
              /\ HasAt(s, q, <<"\"">> \o r \o <<"\"">>)
              /\ HasAt(s, SkipSpace(s, q + Len(r) + 2), <<"}">>)}})

\* /"priority":\s*"(High|Medium|Low)"\s*\}/ matches at index i: the index of its brace, or 0
PriorityMatchEnd(s, i) ==
  IF HasAt(s, i, PriorityKey) THEN PriorityEnd(s, SkipSpace(s, i + Len(PriorityKey))) ELSE 0

\* the index of the brace of the last match, 0 without a match
lastPriorityPos(s) == Greatest({PriorityMatchEnd(s, i) : i \in 1..Len(s)})

\* what is written after the last complete issue
Closing ==
  <<"\n"," "," ","]",",","\n"," "," ","\"","i","s","s","u","e","B","r","e",
   "a","k","d","o","w","n","\"",":"," ","{","}",",","\n"," "," ","\"","n",
   "e","x","t","S","t","e","p","s","\"",":"," ","[","]",",","\n"," "," ",
   "\"","v","e","r","d","i","c","t","\"",":"," ","\"","\"","\n","}">>

\* the three strategies on a text that does not end with a brace
RebuildTruncated(s, completeIssuePos, priorityPos) ==
  IF completeIssuePos > 0 THEN SubSeq(s, 1, completeIssuePos) \o Closing
  ELSE IF priorityPos > 0 THEN SubSeq(s, 1, priorityPos) \o Closing
  ELSE IF lastIndexOf(s, <<"}">>) > 1 THEN SubSeq(s, 1, lastIndexOf(s, <<"}">>))
  ELSE s

FixTruncated(s) ==
  IF endsWith(s, <<"}">>) THEN s
  ELSE RebuildTruncated(s, lastCompleteIssuePos(s), lastPriorityPos(s))

\* the matches of /:\s*"/ within the first n characters
OpenQuotes(s, n) ==
  Cardinality({i \in 1..n : s[i] = ":" /\ SkipSpace(s, i + 1) <= n /\ s[SkipSpace(s, i + 1)] = "\""})

\* the matches of /",/ within the first n characters
CloseQuotes(s, n) == Cardinality({i \in 1..(n - 1) : s[i] = "\"" /\ s[i + 1] = ","})

\* the replacement of the match of /([^\\])"/ that starts at index p
EscapedQuote(s, p) ==
  IF OpenQuotes(s, p) > CloseQuotes(s, p) /\ s[p] \notin {":", "[", "{"}
  THEN <<s[p], "\\", "\"">>
  ELSE <<s[p], "\"">>

RECURSIVE IsQuoteMatch(_, _)
\* /([^\\])"/g matches from index p on: the scan does not use a character twice
IsQuoteMatch(s, p) ==
  /\ p >= 1 /\ p < Len(s)
  /\ s[p] # "\\" /\ s[p + 1] = "\""
  /\ ~IsQuoteMatch(s, p - 1)

\* what the character at index p becomes
ReplacedAt(s, p) ==
  IF IsQuoteMatch(s, p) THEN EscapedQuote(s, p)
  ELSE IF IsQuoteMatch(s, p - 1) THEN <<>>
  ELSE <<s[p]>>

RECURSIVE ReplaceQuotes(_, _, _)
\* replace(/([^\\])"/g, ...) on the characters from index lo to index hi
ReplaceQuotes(s, lo, hi) ==
  IF lo > hi THEN <<>>
  ELSE IF lo = hi THEN ReplacedAt(s, lo)
  ELSE ReplaceQuotes(s, lo, (lo + hi) \div 2) \o ReplaceQuotes(s, (lo + hi) \div 2 + 1, hi)

fixedOutput(s) == ReplaceQuotes(s, 1, Len(s))

\* the second JSON.parse; when it fails too the first error is thrown
ParseFixed(read) == IF read.next # 0 THEN [parsed |-> TRUE, data |-> read.value]
                    ELSE [parsed |-> FALSE, data |-> NoValue]

ParseOrFix(s, read) ==
  IF read.next # 0 THEN [parsed |-> TRUE, data |-> read.value]
  ELSE ParseFixed(JsonParse(fixedOutput(s)))

ParseClean(s) == ParseOrFix(s, JsonParse(s))

\* reviewData after the try block, or the jump to the markdown parser
reviewData(stdout) == ParseClean(FixTruncated(cleanOutput(stdout)))

\* reviewData.issues
IssuesOf(data) == IF Field(data, <<"i","s","s","u","e","s">>).type = "array"
                  THEN Field(data, <<"i","s","s","u","e","s">>).items ELSE <<>>

(***************************************************************************)
(* The repair called on its own: documents cut off inside the last field   *)
(* of their last issue, and whole documents                                *)
(***************************************************************************)
MaxElements == 2

HeadIssues ==
  <<"{","\"","i","s","s","u","e","s","\"",":","[","\n">>

HeadAssessment ==
  <<"{","\"","a","s","s","e","s","s","m","e","n","t","\"",":","{","\"","s",
   "u","m","m","a","r","y","\"",":","\"","o","k","\"","}",",","\n","\"","i",
   "s","s","u","e","s","\"",":","[","\n">>

Ending ==
  <<"\n","]",",","\n","\"","v","e","r","d","i","c","t","\"",":","\"","o",
   "k","\"","}">>

ElementSeparator ==
  <<",","\n">>

ElementPlain ==
  <<"{","\"","i","s","s","u","e","\"",":","\"","a","\"",",">>

ElementBrace ==
  <<"{","\"","i","s","s","u","e","\"",":","\"","b","{","}","\"",",">>

ElementNested ==
  <<"{","\"","i","s","s","u","e","\"",":","\"","c","\"",",","\"","f","i",
   "x","\"",":","{","\"","x","\"",":","\"","1","\"","}",",">>

FieldHigh ==
  <<"\"","p","r","i","o","r","i","t","y","\"",":","\"","H","i","g","h","\"">>

FieldLow ==
  <<"\"","p","r","i","o","r","i","t","y","\"",":","\"","L","o","w","\"">>

FieldEffort ==
  <<"\"","e","f","f","o","r","t","\"",":","\"","1"," ","\\","\"","h","\\",
   "\"","\"">>

\* an issue: its text and the length of its last field
Element(body, field) == [text |-> body \o field \o <<"}">>, field |-> Len(field)]

ElementPool == {Element(ElementPlain, FieldHigh), Element(ElementBrace, FieldLow),
                Element(ElementNested, FieldEffort)}

ElementLists == UNION {[1..k -> ElementPool] : k \in 1..MaxElements}

RECURSIVE JoinElements(_, _)
JoinElements(elements, n) ==
  IF n = 1 THEN elements[1].text
  ELSE JoinElements(elements, n - 1) \o ElementSeparator \o elements[n].text

\* the document up to the end of its last issue
DocumentStart(head, elements) == head \o JoinElements(elements, Len(elements))

\* the cuts inside the last field of the last issue, and no cut at all
Cuts(opening, tail, field) ==
  {Len(opening) - c : c \in 2..field} \cup {Len(opening) + Len(tail)}

RepairCall(opening, tail, cut, preceding) ==
  [stdout |-> SubSeq(opening \o tail, 1, cut), document |-> opening \o tail,
   preceding |-> preceding]

RepairCallsOf(opening, tail, elements) ==
  {RepairCall(opening, tail, cut, Len(elements) - 1) :
     cut \in Cuts(opening, tail, elements[Len(elements)].field)}

RepairCalls ==
  UNION {RepairCallsOf(DocumentStart(head, elements), Ending, elements) :
           head \in {HeadIssues, HeadAssessment}, elements \in ElementLists}

InitRepair ==
  /\ pc = "idle"
  /\ changes = <<>>
  /\ diffContent = <<>>
  /\ fileDiffs = <<>>
  /\ issue = NoIssue
  /\ position = NoPosition
  /\ NoPipeline
  /\ args \in RepairCalls
  /\ returned = <<>>
  /\ NoExecution

ParseAgentOutput ==
  /\ returned = <<>>
  /\ returned' = <<reviewData(args.stdout)>>
  /\ UNCHANGED <<args, outsideCall>>

NextRepair == ParseAgentOutput

SpecRepair == InitRepair /\ [][NextRepair]_vars

(***************************************************************************)
(* The publishing step of main: the inline comments are posted, the review *)
(* is graded on what was posted, the general note is sent, the process     *)
(* exits with the code of the quality gate.                                *)
(***************************************************************************)
MaxReviewed == 3

Metric(category, count) == [category |-> category, count |-> count]

\* the metrics of a review: the three severities and the specialised categories
MetricsOf(critical, moderate, minor, security) ==
  <<Metric("Critical Issues", critical), Metric("Moderate Issues", moderate),
    Metric("Minor Issues", minor), Metric("Test Coverage Issues", 0),
    Metric("Type Safety Issues", 0), Metric("Console Statements", 0),
    Metric("Security Issues", security)>>

\* the metrics a review can carry: none, the defaults, the counts of the agent
MetricsFor(comments) ==
  {<<>>,
   MetricsOf(0, 0, 0, 0),
   MetricsOf(CountSeverity(comments, "critical"), CountSeverity(comments, "moderate"),
             CountSeverity(comments, "minor"), 1)}

\* the issues the review that is published can hold
PublishPool ==
  {[file |-> PathF, line |-> Some(21), issue |-> BodyNullCheck, severity |-> "critical"],
   [file |-> PathF, line |-> Some(22), issue |-> BodyUnused, severity |-> "moderate"],
   [file |-> PathG, line |-> None, issue |-> BodyUnused, severity |-> "minor"]}

PublishLists == UNION {[1..k -> PublishPool] : k \in 0..MaxReviewed}

\* an issue of an earlier review that a discussions file with inlineComments holds
EarlierIssue ==
  [file |-> PathF, line |-> Some(1), diff_line |-> None, new_line |-> None, old_line |-> None,
   newLineCode |-> <<>>, severity |-> "moderate", message |-> BodyNullCheckLoud]

\* m.count of the three severity metrics: the existing and the posted issues of the severity
SeverityOf(category) ==
  IF category = "Critical Issues" THEN "critical"
  ELSE IF category = "Moderate Issues" THEN "moderate"
  ELSE IF category = "Minor Issues" THEN "minor"
  ELSE "none"

\* updatedMetrics that keeps the counts of the review
UnchangedMetrics(ms, existingIssues, posted) == ms

updatedMetrics(ms, existingIssues, posted) ==
  [k \in 1..Len(ms) |->
     [ms[k] EXCEPT !.count = CountSeverity(existingIssues, SeverityOf(ms[k].category))
                             + CountSeverity(posted, SeverityOf(ms[k].category))]]

(***************************************************************************)
(* constants/grading                                                       *)
(***************************************************************************)
Criterion(category, maxDeductions, critical, moderate, minor) ==
  [category |-> category, maxDeductions |-> maxDeductions,
   critical |-> critical, moderate |-> moderate, minor |-> minor]

GRADING_CONFIG ==
  [baseScore |-> 100,
   criteria |-> <<Criterion("Code Quality", 30, 10, 5, 2), Criterion("Type Safety", 20, 8, 4, 1),
                  Criterion("Security", 25, 15, 8, 3), Criterion("Test Coverage", 15, 10, 5, 2),
                  Criterion("Performance", 10, 7, 4, 1)>>,
   passingThresholds |-> [minimumScore |-> 70, minimumGrade |-> "C",
                          criticalIssuesMax |-> 3, moderateIssuesMax |-> 8],
   gradeScale |-> <<[grade |-> "A+", min |-> 97, max |-> 100], [grade |-> "A", min |-> 93, max |-> 96],
                    [grade |-> "A-", min |-> 90, max |-> 92], [grade |-> "B+", min |-> 87, max |-> 89],
                    [grade |-> "B", min |-> 83, max |-> 86], [grade |-> "B-", min |-> 80, max |-> 82],
                    [grade |-> "C+", min |-> 77, max |-> 79], [grade |-> "C", min |-> 73, max |-> 76],
                    [grade |-> "C-", min |-> 70, max |-> 72], [grade |-> "D+", min |-> 67, max |-> 69],
                    [grade |-> "D", min |-> 63, max |-> 66], [grade |-> "D-", min |-> 60, max |-> 62],
                    [grade |-> "F", min |-> 0, max |-> 59]>>]

\* metricCounts[category] || 0: the last metric of the category counts
MetricCount(ms, category) ==
  LET hits == {k \in 1..Len(ms) : ms[k].category = category}
  IN IF hits = {} THEN 0 ELSE ms[CHOOSE k \in hits : \A j \in hits : j <= k].count

IssueCount(critical, moderate, minor) ==
  [critical |-> critical, moderate |-> moderate, minor |-> minor]

\* the switch of calculateScore: the issues that count for a criterion
relevantIssues(category, issueCount, ms) ==
  IF category = "Code Quality"
  THEN IssueCount(issueCount.critical - MetricCount(ms, "Security Issues")
                    - MetricCount(ms, "Type Safety Issues"),
                  issueCount.moderate, issueCount.minor)
  ELSE IF category = "Type Safety" THEN IssueCount(MetricCount(ms, "Type Safety Issues"), 0, 0)
  ELSE IF category = "Security" THEN IssueCount(MetricCount(ms, "Security Issues"), 0, 0)
  ELSE IF category = "Test Coverage" THEN IssueCount(0, MetricCount(ms, "Test Coverage Issues"), 0)
  ELSE IF category = "Performance" THEN IssueCount(0, MetricCount(ms, "Performance Issues"), 0)
  ELSE IssueCount(0, 0, 0)

categoryDeductions(criterion, relevant) ==
  Min(relevant.critical * criterion.critical + relevant.moderate * criterion.moderate
        + relevant.minor * criterion.minor,
      criterion.maxDeductions)

RECURSIVE totalDeductions(_, _, _)
\* the deductions of the first n criteria
totalDeductions(n, issueCount, ms) ==
  IF n = 0 THEN 0
  ELSE totalDeductions(n - 1, issueCount, ms)
       + categoryDeductions(GRADING_CONFIG.criteria[n],
                            relevantIssues(GRADING_CONFIG.criteria[n].category, issueCount, ms))

finalScore(issueCount, ms) ==
  Max(0, Min(100, GRADING_CONFIG.baseScore
                    - totalDeductions(Len(GRADING_CONFIG.criteria), issueCount, ms)))

\* the first grade of the scale whose range holds the score, F when there is none
GradeOf(score) ==
  LET hits == {k \in 1..Len(GRADING_CONFIG.gradeScale) :
                 score >= GRADING_CONFIG.gradeScale[k].min /\ score <= GRADING_CONFIG.gradeScale[k].max}
  IN IF hits = {} THEN "F"
     ELSE GRADING_CONFIG.gradeScale[CHOOSE k \in hits : \A j \in hits : k <= j].grade

Graded(score) == [score |-> score, grade |-> GradeOf(score)]

calculateScore(issues, ms) ==
  Graded(finalScore(IssueCount(CountSeverity(issues, "critical"), CountSeverity(issues, "moderate"),
                               CountSeverity(issues, "minor")),
                    ms))

Grades == <<"F", "D-", "D", "D+", "C-", "C", "C+", "B-", "B", "B+", "A-", "A", "A+">>

\* grades.indexOf(grade)
getGradeValue(grade) ==
  IF \E k \in 1..Len(Grades) : Grades[k] = grade
  THEN (CHOOSE k \in 1..Len(Grades) : Grades[k] = grade) - 1
  ELSE -1

\* passed of checkPassingCriteria: no threshold fails
checkPassingCriteria(score, grade, issueCount) ==
  /\ ~(score < GRADING_CONFIG.passingThresholds.minimumScore)
  /\ ~(getGradeValue(grade) < getGradeValue(GRADING_CONFIG.passingThresholds.minimumGrade))
  /\ ~(issueCount.critical > GRADING_CONFIG.passingThresholds.criticalIssuesMax)
  /\ ~(issueCount.moderate > GRADING_CONFIG.passingThresholds.moderateIssuesMax)

\* the end of main: 0 when the review passes or the gate is off, 1 otherwise
ExitCodeOf(passed, mustPass) == IF passed THEN 0 ELSE IF mustPass THEN 1 ELSE 0

(***************************************************************************)
(* main from the review in hand to process.exit                            *)
(***************************************************************************)
\* the review of the single-phase path for the issues the agent reported
ReviewOf(json) == [verdict |-> "null", inlineComments |-> transformCursorAgentOutput(json)]

\* main holds a review: the three-phase review failed, the single-phase review answered
InitPublish ==
  /\ pc = "idle"
  /\ changes = <<ChangeTwoHunks>>
  /\ diffContent = createUnifiedDiff(changes)
  /\ fileDiffs = <<>>
  /\ issue = NoIssue
  /\ position = NoPosition
  /\ phase = "done"
  /\ cursorApiKey = TRUE
  /\ gitlabNotes = <<>>
  /\ discussionsFile = StoredDiscussions(gitlabNotes)
  /\ existingDiscussions \in {<<>>, <<EarlierIssue>>}
  /\ phase1Issues = <<>>
  /\ issuesWithLineNumbers = <<>>
  /\ \E issues \in PublishLists :
       /\ reviewJson = ProcessSinglePhaseIssues(issues, changes, discussionsFile.comments)
       /\ aiReview = ReviewOf(reviewJson)
       /\ metrics \in MetricsFor(aiReview.inlineComments)
  /\ agentRuns = <<[for |-> "phase1", outcome |-> "exit"], [for |-> "single", outcome |-> "ok"]>>
  /\ exitCode = None
  /\ NoPosting
  /\ STATS = analyzeAIReview(NoStats, aiReview)
  /\ gradingResult = NoGrading
  /\ generalNotes = <<>>
  /\ mustPassReviewQuality \in BOOLEAN
  /\ NoCall
  /\ NoExecution

\* the note that postGeneralComment sends: what the review holds at that moment
GeneralNote(comments, ms) == [inlineComments |-> comments, metrics |-> ms]

\* main after postAIInlineComments: the metrics and the grade of what was posted, the
\* review updated, the general note sent
PostGeneralComment ==
  /\ phase = "done" /\ postingDone
  /\ metrics' = updatedMetrics(metrics, existingDiscussions, successfullyPostedComments)
  /\ gradingResult' = calculateScore(existingDiscussions \o successfullyPostedComments, metrics')
  /\ aiReview' = [aiReview EXCEPT !.inlineComments = successfullyPostedComments]
  /\ generalNotes' = Append(generalNotes, GeneralNote(aiReview'.inlineComments, metrics'))
  /\ phase' = "publish"
  /\ UNCHANGED <<pc, changes, diffContent, fileDiffs, issue, position, cursorApiKey, gitlabNotes,
                 discussionsFile, existingDiscussions, phase1Issues, issuesWithLineNumbers,
                 reviewJson, agentRuns, exitCode, postingVars, STATS, mustPassReviewQuality,
                 outsidePipeline>>

\* the general note is answered (a failure is logged and swallowed): main checks the
\* passing criteria and exits
ExitMain ==
  /\ phase = "publish"
  /\ exitCode' = Some(ExitCodeOf(checkPassingCriteria(gradingResult.score, gradingResult.grade,
                                                      IssueCount(STATS.criticalCount,
                                                                 STATS.moderateCount,
                                                                 STATS.minorCount)),
                                 mustPassReviewQuality))
  /\ phase' = "exited"
  /\ UNCHANGED <<pc, changes, diffContent, fileDiffs, issue, position, cursorApiKey, gitlabNotes,
                 discussionsFile, existingDiscussions, phase1Issues, issuesWithLineNumbers,
                 aiReview, reviewJson, agentRuns, postingVars, STATS, publishVars,
                 outsidePipeline>>

NextPublish ==
  \/ PostSucceeds
  \/ PostFails
  \/ ReturnPosted
  \/ PostGeneralComment
  \/ ExitMain

SpecPublish == InitPublish /\ [][NextPublish]_vars

(***************************************************************************)
(* calculateLinePosition and parseDiffPatch on the text of one file's      *)
(* diff: one or two hunks whose headers carry the counts of their bodies   *)
(***************************************************************************)
MaxHunkLines == 3

LineX == <<"x">>

HunkLinePool == {BodyLine("+", LineX), BodyLine("-", LineX), BodyLine(" ", LineX)}

HunkBodies == UNION {[1..k -> HunkLinePool] : k \in 0..MaxHunkLines}

\* the bodies of a second hunk
SecondBodies ==
  {<<BodyLine(" ", LineX)>>,
   <<BodyLine("+", LineX), BodyLine(" ", LineX)>>,
   <<BodyLine("-", LineX), BodyLine(" ", LineX)>>}

\* a second hunk behind the first one, or one that starts inside its new range
SecondStarts == {<<20, 30>>, <<4, 6>>}

PositionChanges ==
  {<<Change(PathF, <<Hunk(3, 5, body)>>)>> : body \in HunkBodies}
  \cup {<<Change(PathF, <<Hunk(3, 5, body), Hunk(st[1], st[2], second)>>)>> :
          body \in HunkBodies, st \in SecondStarts, second \in SecondBodies}

\* issue.new_line || issue.line || 0
TargetLines == {0} \cup 4..9 \cup 30..32

InitPosition ==
  /\ pc = "parse"
  /\ changes \in PositionChanges
  /\ diffContent = createUnifiedDiff(changes)
  /\ fileDiffs = <<>>
  /\ issue = NoIssue
  /\ position = NoPosition
  /\ NoPipeline
  /\ args \in [line : TargetLines]
  /\ returned = <<>>
  /\ NoExecution

\* calculateLinePosition(issue, fileDiff) on the text
CalculatePosition ==
  /\ returned = <<>>
  /\ returned' = <<calculateLinePosition(args.line, diffContent)>>
  /\ UNCHANGED <<args, outsideCall>>

NextPosition == ParseDiff \/ CalculatePosition

SpecPosition == InitPosition /\ [][NextPosition]_vars

(***************************************************************************)
(* fixIncompleteJSON: the defaults of the fields that are missing and the  *)
(* removal of the incomplete issues at the end of the array                *)
(***************************************************************************)
MaxFixIssues == 4

\* \s of a regular expression
SpaceChars == {" ", "\t", "\n", "\r"}

\* `!s` on a string that may be undefined
Missing(o) == o = None \/ o = Some(<<>>)

\* s?.endsWith(p)
OptEndsWith(o, p) == IsSome(o) /\ endsWith(Unwrap(o), p)

Ellipsis == <<".", ".", ".">>

\* codeExample.match(/[^;\s]\s*$/): the last character that is no space is not a semicolon
EndsWithoutClosure(s) ==
  LET solid == {i \in 1..Len(s) : s[i] \notin SpaceChars}
  IN solid # {} /\ s[Greatest(solid)] # ";"

\* const isIncomplete = ...
isIncomplete(lastIssue) ==
  \/ Missing(lastIssue.recommendation)
  \/ Len(Unwrap(lastIssue.recommendation)) < 10
  \/ Missing(lastIssue.effort)
  \/ Missing(lastIssue.impact)
  \/ Missing(lastIssue.priority)
  \/ Missing(lastIssue.codeExample)
  \/ Len(Unwrap(lastIssue.codeExample)) < 10
  \/ OptEndsWith(lastIssue.issue, Ellipsis)
  \/ OptEndsWith(lastIssue.recommendation, Ellipsis)
  \/ OptEndsWith(lastIssue.codeExample, Ellipsis)
  \/ includes(Unwrap(lastIssue.codeExample), <<"\"", "<">>)
  \/ EndsWithoutClosure(Unwrap(lastIssue.codeExample))

RECURSIVE RemoveIncomplete(_, _, _)
\* the loop from turn i on: the last issue is popped while it is incomplete
RemoveIncomplete(issues, i, issuesToCheck) ==
  IF i >= issuesToCheck \/ issues = <<>> THEN issues
  ELSE IF isIncomplete(issues[Len(issues)])
       THEN RemoveIncomplete(SubSeq(issues, 1, Len(issues) - 1), i + 1, issuesToCheck)
       ELSE issues

\* Math.min(3, reviewData.issues.length) turns of the loop
RemoveIncompleteIssues(issues) == RemoveIncomplete(issues, 0, Min(3, Len(issues)))

\* issues.filter(i => i.severity === severity).map(i => i.title)
TitlesOf(issues, severity) ==
  LET kept == SelectSeq(issues, LAMBDA i : i.severity = severity)
  IN [k \in 1..Len(kept) |-> kept[k].title]

DefaultAssessment ==
  [summary |-> "Review data incomplete", strengths |-> <<>>, weaknesses |-> <<>>,
   recommendations |-> <<>>]

DefaultNextSteps ==
  <<[title |-> "Review inline comments",
     description |-> "Address issues identified in the review", effort |-> "1 hour"]>>

issueBreakdownOf(issues) ==
  [critical |-> TitlesOf(issues, "critical"), moderate |-> TitlesOf(issues, "moderate"),
   minor |-> TitlesOf(issues, "minor")]

verdictOf(issues) ==
  IF CountSeverity(issues, "critical") > 0 THEN "REQUEST CHANGES" ELSE "APPROVE WITH MINOR CHANGES"

\* the fields are filled in for the issues that are left
FillMissing(review, issues) ==
  [assessment |-> IF review.assessment = None THEN Some(DefaultAssessment)
                  ELSE review.assessment,
   metrics |-> IF review.metrics = <<>> THEN MetricsOf(0, 0, 0, 0) ELSE review.metrics,
   issues |-> Some(issues),
   issueBreakdown |-> IF review.issueBreakdown = None THEN Some(issueBreakdownOf(issues))
                      ELSE review.issueBreakdown,
   nextSteps |-> IF review.nextSteps = None THEN Some(DefaultNextSteps)
                 ELSE review.nextSteps,
   verdict |-> IF review.verdict = None THEN Some(verdictOf(issues))
               ELSE review.verdict]

\* reviewData.issues, [] when it is missing
issuesOrEmpty(review) == IF review.issues = None THEN <<>> ELSE Unwrap(review.issues)

fixIncompleteJSON(review) == FillMissing(review, RemoveIncompleteIssues(issuesOrEmpty(review)))

RawIssue(title, severity, text, recommendation, effort, codeExample) ==
  [title |-> title, severity |-> severity, issue |-> text, recommendation |-> recommendation,
   effort |-> effort, impact |-> Some(<<"l","o","w">>), priority |-> Some(<<"H","i","g","h">>),
   codeExample |-> codeExample]

TextNullCheck == Some(<<"N","u","l","l"," ","c","h","e","c","k">>)

RecommendGuard == Some(<<"U","s","e"," ","a"," ","g","u","a","r","d"," ","c","l","a","u","s","e",".">>)

EffortHour == Some(<<"1","h">>)

CodeReturn == Some(<<"r","e","t","u","r","n"," ","a"," ","+"," ","b",";">>)

\* a recommendation of 19 characters, a code example of 13 that ends in a semicolon
IssueWhole == RawIssue("whole", "critical", TextNullCheck, RecommendGuard, EffortHour, CodeReturn)

\* the code example ends with a closing brace
IssueBrace ==
  RawIssue("brace", "moderate", TextNullCheck, RecommendGuard, EffortHour, Some(<<"i","f"," ","(","a",")"," ","{"," ","b","(",")",";"," ","}">>))

\* the code example holds an attribute that opens a tag
IssueJsx ==
  RawIssue("jsx", "minor", TextNullCheck, RecommendGuard, EffortHour, Some(<<"<","A"," ","b","=","\"","<","c","\""," ","/",">",";">>))

\* the text of the issue ends in three dots
IssueTextCut ==
  RawIssue("text", "minor", Some(<<"N","u","l","l"," ","c","h","e",".",".",".">>), RecommendGuard, EffortHour, CodeReturn)

IssueNoEffort == RawIssue("effort", "critical", TextNullCheck, RecommendGuard, None, CodeReturn)

IssueShortRecommendation ==
  RawIssue("short", "moderate", TextNullCheck, Some(<<"F","i","x"," ","i","t">>), EffortHour, CodeReturn)

\* the code example is cut: it ends in three dots
IssueCodeCut ==
  RawIssue("cut", "critical", TextNullCheck, RecommendGuard, EffortHour, Some(<<"r","e","t","u","r","n"," ","a"," ","+"," ",".",".",".">>))

RawIssuePool ==
  {IssueWhole, IssueBrace, IssueJsx, IssueTextCut, IssueNoEffort, IssueShortRecommendation,
   IssueCodeCut}

RawIssueLists == UNION {[1..k -> RawIssuePool] : k \in 0..MaxFixIssues}

\* the fields that the review lacks besides its issues
RawReview(issues, lacking) ==
  [assessment |-> IF "assessment" \in lacking THEN None ELSE Some(DefaultAssessment),
   metrics |-> IF "metrics" \in lacking THEN <<>> ELSE MetricsOf(1, 0, 0, 0),
   issues |-> issues,
   issueBreakdown |-> IF "issueBreakdown" \in lacking THEN None
                      ELSE Some([critical |-> <<>>, moderate |-> <<>>, minor |-> <<>>]),
   nextSteps |-> IF "nextSteps" \in lacking THEN None ELSE Some(<<>>),
   verdict |-> IF "verdict" \in lacking THEN None ELSE Some("APPROVE")]

Lackings ==
  {{"verdict"}, {"issueBreakdown", "nextSteps", "verdict"},
   {"assessment", "metrics", "issueBreakdown", "nextSteps", "verdict"}, {}}

RawReviews ==
  {RawReview(Some(issues), lacking) : issues \in RawIssueLists, lacking \in Lackings}
  \cup {RawReview(None, lacking) : lacking \in Lackings}

InitFix ==
  /\ pc = "idle"
  /\ changes = <<>>
  /\ diffContent = <<>>
  /\ fileDiffs = <<>>
  /\ issue = NoIssue
  /\ position = NoPosition
  /\ NoPipeline
  /\ args \in RawReviews
  /\ returned = <<>>
  /\ NoExecution

\* reviewData = fixIncompleteJSON(reviewData)
FixIncomplete ==
  /\ returned = <<>>
  /\ returned' = <<fixIncompleteJSON(args)>>
  /\ UNCHANGED <<args, outsideCall>>

NextFix == FixIncomplete

SpecFix == InitFix /\ [][NextFix]_vars

(***************************************************************************)
(* executeCursorAgent: the promise, the child process with its close and   *)
(* error events, the data of its streams, the timeout timer and the        *)
(* temporary prompt file                                                   *)
(***************************************************************************)
MaxChunks == 2

\* the pieces of text the child writes
ChunkPool == {<<"{">>, <<"}">>}

\* the exit code of the close event: null when a signal ended the child
ExitCodes == {Some(0), Some(1), None}

Pending == [state |-> "pending"]

ResolvedWith(value) == [state |-> "resolved", value |-> value]

RejectedWith(reason) == [state |-> "rejected", reason |-> reason]

\* a resolve or reject that replaces the outcome the promise has
SettleAgain(promise, outcome) == outcome

\* resolve(...) or reject(...) of new Promise: only a pending promise takes the outcome
Settle(promise, outcome) == IF promise.state = "pending" THEN outcome ELSE promise

\* new Error(`cursor-agent exited with code ${code}: ${stderr}`)
ExitError(code, stderr) == [kind |-> "exited", code |-> code, stderr |-> stderr]

\* the outcome the close handler asks for
CloseOutcome(code, stdout, stderr) ==
  IF code # Some(0) THEN RejectedWith(ExitError(code, stderr)) ELSE ResolvedWith(stdout)

\* clearTimeout(timeout)
clearTimeout(timeout) == IF timeout = "armed" THEN "cleared" ELSE timeout

\* the prompt is written, the child is spawned, the handlers and the timer are set
InitAgent ==
  /\ pc = "idle"
  /\ changes = <<>>
  /\ diffContent = <<>>
  /\ fileDiffs = <<>>
  /\ issue = NoIssue
  /\ position = NoPosition
  /\ NoPipeline
  /\ NoCall
  /\ execution = [cursorProcess |-> [closed |-> FALSE, code |-> None, errored |-> FALSE,
                                      signals |-> <<>>],
                  stdout |-> <<>>, stderr |-> <<>>, timeout |-> "armed",
                  promise |-> Pending, promptFile |-> TRUE]

\* what executeCursorAgent leaves alone
outsideExecution == <<pc, changes, diffContent, fileDiffs, issue, position, pipelineVars, callVars>>

\* cursorProcess.stdout on 'data'
StdoutData ==
  /\ ~execution.cursorProcess.closed
  /\ Len(execution.stdout) < MaxChunks
  /\ \E output \in ChunkPool : execution' = [execution EXCEPT !.stdout = @ \o output]
  /\ UNCHANGED outsideExecution

\* cursorProcess.stderr on 'data'
StderrData ==
  /\ ~execution.cursorProcess.closed
  /\ Len(execution.stderr) < 1
  /\ execution' = [execution EXCEPT !.stderr = @ \o <<"!">>]
  /\ UNCHANGED outsideExecution

\* cursorProcess on 'close': both listeners, in the order they were added
CursorProcessCloses ==
  /\ ~execution.cursorProcess.closed
  /\ \E code \in ExitCodes :
       execution' = [execution EXCEPT
                       !.cursorProcess.closed = TRUE,
                       !.cursorProcess.code = code,
                       !.promptFile = FALSE,
                       !.promise = Settle(@, CloseOutcome(code, execution.stdout, execution.stderr)),
                       !.timeout = clearTimeout(@)]
  /\ UNCHANGED outsideExecution

\* cursorProcess on 'error'
CursorProcessErrors ==
  /\ ~execution.cursorProcess.closed
  /\ ~execution.cursorProcess.errored
  /\ execution' = [execution EXCEPT
                     !.cursorProcess.errored = TRUE,
                     !.promptFile = FALSE,
                     !.promise = Settle(@, RejectedWith([kind |-> "error"]))]
  /\ UNCHANGED outsideExecution

\* the callback of setTimeout
TimeoutFires ==
  /\ execution.timeout = "armed"
  /\ execution' = [execution EXCEPT
                     !.cursorProcess.signals = Append(@, "SIGTERM"),
                     !.promptFile = FALSE,
                     !.promise = Settle(@, RejectedWith([kind |-> "timed out"])),
                     !.timeout = "fired"]
  /\ UNCHANGED outsideExecution

NextAgent ==
  \/ StdoutData
  \/ StderrData
  \/ CursorProcessCloses
  \/ CursorProcessErrors
  \/ TimeoutFires

\* a timer that is not cleared fires
SpecAgent == InitAgent /\ [][NextAgent]_vars /\ WF_vars(TimeoutFires)

(***************************************************************************)
(* Vocabulary of the properties: places in the input, scores as fractions  *)
(***************************************************************************)
FracGt(a, b) == a[1] * b[2] > b[1] * a[2]

FracEq(a, b) == a[1] * b[2] = b[1] * a[2]

FracMax(a, b) == IF FracGt(b, a) THEN b ELSE a

\* the change of the issue's file, if the diff has one
ChangesOfFile == {n \in 1..Len(changes) : changes[n].new_path = issue.file}

TheChange == changes[CHOOSE n \in ChangesOfFile : TRUE]

\* a place is <<hunk, line of its body>>; the places of the new revision
Places ==
  IF ChangesOfFile = {} THEN {}
  ELSE UNION {{<<k, j>> : j \in {i \in 1..Len(TheChange.hunks[k].body) :
                                    TheChange.hunks[k].body[i].prefix # "-"}} :
              k \in 1..Len(TheChange.hunks)}

Before(p, q) == p[1] < q[1] \/ (p[1] = q[1] /\ p[2] < q[2])

FirstOf(S) == CHOOSE p \in S : \A q \in S : p = q \/ Before(p, q)

BodyAt(p) == TheChange.hunks[p[1]].body[p[2]]

\* the line numbers git's numbering gives the place
NumbersAt(p) ==
  LET h    == TheChange.hunks[p[1]]
      head == SubSeq(h.body, 1, p[2] - 1)
  IN [new_line |-> Some(h.newStart + CountNew(head)),
      old_line |-> IF h.body[p[2]].prefix = "+" THEN None ELSE Some(h.oldStart + CountOld(head))]

ResolvedTo(p) ==
  position.new_line = NumbersAt(p).new_line /\ position.old_line = NumbersAt(p).old_line

Target == normalizeCode(issue.newLineCode)

CodeAt(p) == normalizeCode(BodyAt(p).content)

Boilerplate == {<<"r","e","t","u","r","n",";">>, <<"b","r","e","a","k",";">>,
                <<"c","o","n","t","i","n","u","e",";">>}

PassesFilters == ChangesOfFile # {} /\ Len(Target) >= 5 /\ Target \notin Boilerplate

ExactPlaces == {p \in Places : CodeAt(p) = Target}

\* one string contains the other and the contained one has at least 15 characters
Containment(t, l) ==
  IF Len(t) >= 15 /\ Len(t) <= Len(l) /\ includes(l, t) THEN <<Len(t), Len(l)>>
  ELSE IF Len(l) >= 15 /\ Len(l) <= Len(t) /\ includes(t, l) THEN <<Len(l), Len(t)>>
  ELSE <<0, 1>>

SameIndexMatches(t, l) ==
  Cardinality({i \in 1..Len(t) : i <= Len(l) /\ t[i] = l[i]})

\* both strings of at least 20 characters: equal characters at the same index
Positional(t, l) ==
  IF Len(t) >= 20 /\ Len(l) >= 20
  THEN <<SameIndexMatches(t, l), IF Len(t) >= Len(l) THEN Len(t) ELSE Len(l)>>
  ELSE <<0, 1>>

\* the score of a place when every positional score counts
PlainScore(p) == FracMax(Containment(Target, CodeAt(p)), Positional(Target, CodeAt(p)))

\* the score of a place when a positional score counts only above 0.6
FlooredScore(p) ==
  FracMax(Containment(Target, CodeAt(p)),
          IF FracGt(Positional(Target, CodeAt(p)), <<6, 10>>)
          THEN Positional(Target, CodeAt(p)) ELSE <<0, 1>>)

BestPlain == {p \in Places : \A q \in Places : ~FracGt(PlainScore(q), PlainScore(p))}

BestFloored == {p \in Places : \A q \in Places : ~FracGt(FlooredScore(q), FlooredScore(p))}

Resolved == pc = "done"

(***************************************************************************)
(* C1: the hint is never used as a line number: calls that differ only in  *)
(* the hint return the same new_line, old_line and confidence, so no value *)
(* derived from the hint is written into issue.new_line.                   *)
(***************************************************************************)
C1_HintNeverUsed ==
  Resolved =>
    \A h \in Hints :
      LET other == findCorrectLineNumbers(issue.file, issue.newLineCode, h, fileDiffs)
      IN /\ other.new_line = position.new_line
         /\ other.old_line = position.old_line
         /\ other.confidence = position.confidence
         /\ issue.new_line = other.new_line

\* the Dedupe call of this run was started and did not come back with an answer
DedupeFailed ==
  \E k \in 1..Len(agentRuns) : agentRuns[k].for = "phase3" /\ agentRuns[k].outcome \in Failures

\* the issues that survived Resolve, each put to the local duplicate check
LocallyFiltered ==
  SelectIdx(issuesWithLineNumbers,
            {k \in 1..Len(issuesWithLineNumbers) :
               ~isSimilarCommentExists(issuesWithLineNumbers[k].file,
                                       Unwrap(issuesWithLineNumbers[k].new_line),
                                       issuesWithLineNumbers[k].message,
                                       UserComments(gitlabNotes), 3)},
            Len(issuesWithLineNumbers))

\* C2: when the Dedupe call fails, times out or answers with text that does
\* not parse, the run does not end with exit code 1, and when it has its
\* review the inline comments are the issues that survived Resolve, each
\* filtered with the local duplicate check.
C2_DedupeFailureKeepsResolved ==
  DedupeFailed =>
    /\ exitCode # Some(1)
    /\ (phase = "done" => aiReview.inlineComments = LocallyFiltered)

(***************************************************************************)
(* C3: a snippet that passes the filters and equals, normalized, an Added  *)
(* or Context line resolves to Exact with the numbers of the first such    *)
(* line in hunk and line order: new_start + k for an Added line after k    *)
(* non-Removed lines of its hunk, with no old_line (1702 and 11 in the two *)
(* examples).                                                              *)
(***************************************************************************)
C3_ExactFirst ==
  /\ (Resolved /\ PassesFilters /\ ExactPlaces # {}) =>
        /\ position.confidence = "exact"
        /\ ResolvedTo(FirstOf(ExactPlaces))
        /\ BodyAt(FirstOf(ExactPlaces)).prefix = "+" => position.old_line = None
  /\ (Resolved /\ changes = <<Change1699>> /\ issue.newLineCode = SnippetGetImm) =>
        position = [old_line |-> None, new_line |-> Some(1702), confidence |-> "exact"]
  /\ (Resolved /\ changes = <<Change10>> /\ issue.newLineCode = SnippetConsole) =>
        position = [old_line |-> None, new_line |-> Some(11), confidence |-> "exact"]

\* an Added line was matched exactly after a fuzzy candidate had been seen
C3_Witness ==
  /\ Resolved /\ PassesFilters /\ ExactPlaces # {}
  /\ position.confidence = "exact"
  /\ BodyAt(FirstOf(ExactPlaces)).prefix = "+"
  /\ \E q \in Places : Before(q, FirstOf(ExactPlaces)) /\ FracGt(FlooredScore(q), <<4, 10>>)

(***************************************************************************)
(* C4 as stated: without an exact match the result is Fuzzy exactly when   *)
(* the best containment or positional score of a non-Removed line exceeds  *)
(* 0.4, at a line that attains it, and Unresolved otherwise.               *)
(***************************************************************************)
C4_FuzzyIffPlainAboveThreshold ==
  (Resolved /\ PassesFilters /\ ExactPlaces = {}) =>
     IF \E p \in Places : FracGt(PlainScore(p), <<4, 10>>)
     THEN position.confidence = "fuzzy" /\ \E p \in BestPlain : ResolvedTo(p)
     ELSE position.confidence = "fallback"

(***************************************************************************)
(* C4 amended: as C4, a positional score counting only when it exceeds     *)
(* 0.6.                                                                    *)
(***************************************************************************)
C4_FuzzyIffFlooredAboveThreshold ==
  (Resolved /\ PassesFilters /\ ExactPlaces = {}) =>
     IF \E p \in Places : FracGt(FlooredScore(p), <<4, 10>>)
     THEN position.confidence = "fuzzy" /\ \E p \in BestFloored : ResolvedTo(p)
     ELSE position.confidence = "fallback" /\ position.new_line = Some(0)

\* a fuzzy result that only the positional score explains
C4_Witness ==
  /\ Resolved /\ PassesFilters /\ ExactPlaces = {}
  /\ position.confidence = "fuzzy"
  /\ \A p \in BestFloored : Containment(Target, CodeAt(p)) = <<0, 1>>

(***************************************************************************)
(* C8: a Removed line is never a match target: an exact or fuzzy result    *)
(* carries the numbers of an Added or Context line of a hunk of the        *)
(* requested file, so its new_line is a line of the new revision.          *)
(***************************************************************************)
C8_RemovedNeverMatched ==
  (Resolved /\ position.confidence \in {"exact", "fuzzy"}) =>
     /\ position.new_line # None
     /\ issue.file \in DOMAIN fileDiffs
     /\ \E k \in 1..Len(fileDiffs[issue.file].hunks) :
          \E j \in 1..Len(fileDiffs[issue.file].hunks[k].lines) :
            LET line == fileDiffs[issue.file].hunks[k].lines[j]
            IN /\ line.type \in {"added", "context"}
               /\ line.new_line = position.new_line
               /\ line.old_line = position.old_line

\* a Removed line equal to the snippet comes first and another line is matched
C8_Witness ==
  /\ Resolved /\ position.confidence = "exact"
  /\ TheChange.hunks[1].body[1].prefix = "-"
  /\ normalizeCode(TheChange.hunks[1].body[1].content) = Target

(***************************************************************************)
(* C9: a snippet of fewer than 5 normalized characters, or one of          *)
(* return; break; continue;, is always Unresolved, whatever the diff.      *)
(***************************************************************************)
C9_BoilerplateUnresolved ==
  (Resolved /\ (Len(Target) < 5 \/ Target \in Boilerplate)) =>
     position.confidence = "fallback"

\* the snippet } against a diff with several lines equal to }
C9_Witness ==
  /\ Resolved /\ Target = <<"}">>
  /\ Cardinality({p \in Places : CodeAt(p) = Target}) >= 2
  /\ position.confidence = "fallback"

(***************************************************************************)
(* C10: of several fuzzy candidates the one with the highest score is      *)
(* returned, and of those that share the highest score the first in hunk   *)
(* and line order.                                                         *)
(***************************************************************************)
C10_HighestThenFirst ==
  (Resolved /\ position.confidence = "fuzzy") => ResolvedTo(FirstOf(BestFloored))

\* two candidates share the highest score
C10_Witness ==
  /\ Resolved /\ position.confidence = "fuzzy"
  /\ Cardinality(BestFloored) >= 2

(***************************************************************************)
(* Properties of the parsed model                                          *)
(***************************************************************************)
Parsed == pc # "parse"

\* every hunk of the model, with the file it is in
ParsedHunks ==
  UNION {{fileDiffs[f].hunks[k] : k \in 1..Len(fileDiffs[f].hunks)} : f \in DOMAIN fileDiffs}

IsNumber(o) == Cardinality(o) = 1 /\ \A n \in o : n \in Nat

TypesBefore(hunk, j, type) == Cardinality({i \in 1..(j - 1) : hunk.lines[i].type = type})

(***************************************************************************)
(* C5: in every DiffLine of the model of any text, added has no old_line   *)
(* and a new_line, removed has no new_line and an old_line, context has    *)
(* both.                                                                   *)
(***************************************************************************)
C5_LineKinds ==
  Parsed =>
    \A hunk \in ParsedHunks : \A j \in 1..Len(hunk.lines) :
      LET line == hunk.lines[j]
      IN /\ line.type \in {"added", "removed", "context"}
         /\ line.type = "added" => line.old_line = None /\ IsNumber(line.new_line)
         /\ line.type = "removed" => line.new_line = None /\ IsNumber(line.old_line)
         /\ line.type = "context" => IsNumber(line.old_line) /\ IsNumber(line.new_line)

\* a hunk of the model holds lines of all three kinds
C5_Witness ==
  /\ Parsed
  /\ \E hunk \in ParsedHunks :
       \A t \in {"added", "removed", "context"} :
         \E j \in 1..Len(hunk.lines) : hunk.lines[j].type = t

(***************************************************************************)
(* C6: a well-formed hunk is recorded line by line in order: the lines     *)
(* that are not Removed carry new_start, new_start + 1, ..., the lines     *)
(* that are not Added carry old_start, old_start + 1, ..., each with its   *)
(* content without the prefix, a count left out of the header read as 1,   *)
(* so that both sides of the hunk can be read back from the model.         *)
(***************************************************************************)
SideOf(body, dropped) ==
  LET keep == {i \in 1..Len(body) : body[i].prefix # dropped}
  IN SelectIdx([i \in 1..Len(body) |-> body[i].content], keep, Len(body))

ParsedSide(hunk, droppedType) ==
  LET keep == {i \in 1..Len(hunk.lines) : hunk.lines[i].type # droppedType}
  IN SelectIdx(hunk.lines, keep, Len(hunk.lines))

C6_HunkRoundTrip ==
  (Parsed /\ changes # <<>>) =>
    \A n \in 1..Len(changes) :
      /\ changes[n].new_path \in DOMAIN fileDiffs
      /\ Len(fileDiffs[changes[n].new_path].hunks) = Len(changes[n].hunks)
      /\ \A k \in 1..Len(changes[n].hunks) :
           LET h       == changes[n].hunks[k]
               hunk    == fileDiffs[changes[n].new_path].hunks[k]
               newSide == ParsedSide(hunk, "removed")
               oldSide == ParsedSide(hunk, "added")
           IN /\ hunk.oldStart = h.oldStart /\ hunk.newStart = h.newStart
              /\ hunk.oldCount = CountOld(h.body) /\ hunk.newCount = CountNew(h.body)
              /\ Len(hunk.lines) = Len(h.body)
              /\ Len(newSide) = hunk.newCount /\ Len(oldSide) = hunk.oldCount
              /\ \A i \in 1..Len(newSide) : newSide[i].new_line = Some(h.newStart + i - 1)
              /\ \A i \in 1..Len(oldSide) : oldSide[i].old_line = Some(h.oldStart + i - 1)
              /\ [i \in 1..Len(newSide) |-> newSide[i].content] = SideOf(h.body, "-")
              /\ [i \in 1..Len(oldSide) |-> oldSide[i].content] = SideOf(h.body, "+")

\* a hunk whose header leaves the old count out and whose body removes and adds
C6_Witness ==
  /\ Parsed /\ changes # <<>>
  /\ \E k \in 1..Len(changes[1].hunks) :
       LET h == changes[1].hunks[k]
       IN /\ CountOld(h.body) = 1 /\ CountNew(h.body) > 1
          /\ \E i \in 1..Len(h.body) : h.body[i].prefix = "-"
          /\ \E i \in 1..Len(h.body) : h.body[i].prefix = "+"

(***************************************************************************)
(* C7 as stated: in every hunk, new_line - old_line of every Context line  *)
(* equals new_start - old_start.                                           *)
(***************************************************************************)
C7_ContextOffsetConstant ==
  Parsed =>
    \A hunk \in ParsedHunks : \A j \in 1..Len(hunk.lines) :
      hunk.lines[j].type = "context" =>
        Unwrap(hunk.lines[j].new_line) - Unwrap(hunk.lines[j].old_line)
          = hunk.newStart - hunk.oldStart

(***************************************************************************)
(* C7 amended: in every hunk, new_line - old_line of a Context line equals *)
(* new_start - old_start plus the number of Added lines before it in the   *)
(* hunk minus the number of Removed lines before it.                       *)
(***************************************************************************)
C7_ContextOffsetTracksChanges ==
  Parsed =>
    \A hunk \in ParsedHunks : \A j \in 1..Len(hunk.lines) :
      hunk.lines[j].type = "context" =>
        Unwrap(hunk.lines[j].new_line) - Unwrap(hunk.lines[j].old_line)
          = hunk.newStart - hunk.oldStart
            + TypesBefore(hunk, j, "added") - TypesBefore(hunk, j, "removed")

\* a Context line after a Removed line in a hunk whose starts differ
C7_Witness ==
  /\ Parsed
  /\ \E hunk \in ParsedHunks : \E j \in 1..Len(hunk.lines) :
       /\ hunk.lines[j].type = "context"
       /\ hunk.newStart # hunk.oldStart
       /\ TypesBefore(hunk, j, "removed") > 0

(***************************************************************************)
(* C11: isSimilarCommentExists returns true if and only if some existing   *)
(* comment has the same file, a line number at most the window away from   *)
(* the issue's line and a similarity to the body strictly above 0.6; a     *)
(* comment on another file or outside the window never makes it true.      *)
(***************************************************************************)
Called == returned # <<>>

\* the comment is on the issue's file and its line is within the window
Local(c) ==
  /\ c.file = {args.file}
  /\ c.line # {}
  /\ \E n \in c.line : n - args.line <= args.lineToleranceRange
                        /\ args.line - n <= args.lineToleranceRange

Alike(c) == FracGt(calculateSimilarity(args.commentBody, c.body), <<6, 10>>)

C11_DuplicateIffLocalAndAlike ==
  Called =>
    (returned[1] <=> \E k \in 1..Len(args.existingComments) :
                       Local(args.existingComments[k]) /\ Alike(args.existingComments[k]))

\* true through a local comment while an equally similar one is too far away
C11_Witness ==
  /\ Called
  /\ returned[1]
  /\ \E k \in 1..Len(args.existingComments) :
       Alike(args.existingComments[k]) /\ ~Local(args.existingComments[k])

(***************************************************************************)
(* C12: with the comment "Consider adding null validation for authHeaders" *)
(* on file F at line 701, the issue "Potential NullPointerException -      *)
(* missing null check on authHeaders" on file F at line 703 is reported a  *)
(* duplicate (window 3).                                                   *)
(***************************************************************************)
C12_ExampleIsDuplicate ==
  (/\ Called
   /\ args.file = PathF /\ args.line = 703 /\ args.commentBody = BodyPotential
   /\ args.lineToleranceRange = 3
   /\ args.existingComments = <<ExistingComment(Some(PathF), Some(701), BodyConsider)>>)
  => returned[1]

(***************************************************************************)
(* C13: when Discover returns an empty issue list the review goes straight *)
(* to Done with an empty list: the diff is not resolved and the            *)
(* collaborator is not invoked a second time.                              *)
(***************************************************************************)
DiscoverAnswered == Len(agentRuns) >= 1 /\ agentRuns[1] = [for |-> "phase1", outcome |-> "ok"]

C13_EmptyDiscoverGoesToDone ==
  (DiscoverAnswered /\ phase1Issues = <<>>) =>
    /\ phase = "done"
    /\ aiReview.inlineComments = <<>>
    /\ fileDiffs = <<>>
    /\ Len(agentRuns) = 1

C13_Witness == DiscoverAnswered /\ phase1Issues = <<>> /\ phase = "done"

(***************************************************************************)
(* C14: the list handed from Resolve to Dedupe holds exactly the Discover  *)
(* issues located with confidence exact or fuzzy, in their original order, *)
(* each with its resolved new_line and old_line; the issues that are not   *)
(* located are absent, and when the list is empty the Dedupe collaborator  *)
(* is never invoked.                                                       *)
(***************************************************************************)
\* Resolve is over and its list is handed on; nothing is posted yet
ResolveDone ==
  /\ DiscoverAnswered /\ phase1Issues # <<>> /\ phase # "resolve"
  /\ requests = <<>> /\ ~postingDone

\* where findCorrectLineNumbers places every issue of Discover
PlacesIn(diffs) ==
  [k \in 1..Len(phase1Issues) |->
     findCorrectLineNumbers(phase1Issues[k].file, phase1Issues[k].codeSnippet,
                            phase1Issues[k].diff_line, diffs)]

LocatedIssues(places) == {k \in DOMAIN places : places[k].confidence \in {"exact", "fuzzy"}}

\* the j-th located issue of Discover
NthLocated(K, j) == CHOOSE k \in K : Cardinality({m \in K : m <= k}) = j

Carries(c, i, p) ==
  /\ c.file = i.file /\ c.message = i.issue /\ c.newLineCode = i.codeSnippet
  /\ c.severity = i.severity
  /\ c.new_line = p.new_line /\ c.old_line = p.old_line

IsLocatedList(list, places, K) ==
  /\ Len(list) = Cardinality(K)
  /\ \A j \in 1..Len(list) :
       Carries(list[j], phase1Issues[NthLocated(K, j)], places[NthLocated(K, j)])

IsListOf(list, places) == IsLocatedList(list, places, LocatedIssues(places))

DedupeInvoked == \E r \in 1..Len(agentRuns) : agentRuns[r].for = "phase3"

DiscoverRuns == {r \in 1..Len(agentRuns) : agentRuns[r].for \in {"phase1", "single"}}

DedupeRuns == {r \in 1..Len(agentRuns) : agentRuns[r].for = "phase3"}

StillRunning == {r \in 1..Len(agentRuns) : agentRuns[r].outcome = "running"}

C15_EachPhaseInvokedOnce ==
  /\ Cardinality(DiscoverRuns) <= 1
  /\ Cardinality(DedupeRuns) <= 1
  /\ Cardinality(StillRunning) <= 1

(***************************************************************************)
(* C16: when the text returned by the issue-discovery step cannot be       *)
(* turned into structured data, nothing is raised: the issue list is empty *)
(* and the pipeline continues, with no exception and no process exit.      *)
(***************************************************************************)
DiscoverUnparsable == Len(agentRuns) >= 1 /\ agentRuns[1] = [for |-> "phase1", outcome |-> "unparsable"]

C16_UnparsableDiscoverIsEmptyList ==
  DiscoverUnparsable =>
    /\ exitCode = None
    /\ phase # "exited"
    /\ Len(agentRuns) = 1
    /\ (phase = "done" => aiReview.inlineComments = <<>>)

(***************************************************************************)
(* C17: for a structurally valid document cut off in the middle of the     *)
(* last field of the last element of its issues array, the repair yields a *)
(* parseable document whose issues array holds exactly the elements before *)
(* the cut-off one, complete and in order, and no part of the cut-off one. *)
(***************************************************************************)
CutOff == Len(args.stdout) < Len(args.document)

\* the issues of the whole document
WholeIssues == IssuesOf(JsonParse(args.document).value)

C17_RepairKeepsPrecedingIssues ==
  (Called /\ CutOff) =>
    /\ returned[1].parsed
    /\ IssuesOf(returned[1].data) = SubSeq(WholeIssues, 1, args.preceding)

(***************************************************************************)
(* C18: a line that starts with @@ and does not parse is skipped and       *)
(* parsing continues: the content lines between it and the next valid      *)
(* header are added to no hunk, and every valid hunk appears exactly once  *)
(* in the hunk sequence of its file, holding only its own lines.           *)
(***************************************************************************)
\* the last line up to line p that starts with @@, 0 when there is none
HeaderAbove(p) == Greatest({h \in 1..p : startsWith(diffContent[h], AtAt)})

\* the lines of the text that a hunk holds
PatchLinesOf(hunk) == {hunk.lines[j].diff_line_in_patch : j \in 1..Len(hunk.lines)}

HoldsOwnLines(hunk) ==
  \A p \in PatchLinesOf(hunk) :
    HeaderAbove(p) # 0 /\ diffContent[HeaderAbove(p)] = hunk.headerLine

AppearsOnce(hunks) ==
  \A k1, k2 \in 1..Len(hunks) : k1 # k2 => PatchLinesOf(hunks[k1]) \cap PatchLinesOf(hunks[k2]) = {}

C18_MalformedHunkHeaderSkipped ==
  Parsed =>
    \A f \in DOMAIN fileDiffs :
      /\ AppearsOnce(fileDiffs[f].hunks)
      /\ \A k \in 1..Len(fileDiffs[f].hunks) : HoldsOwnLines(fileDiffs[f].hunks[k])

(***************************************************************************)
(* C19: every issue that survives Resolve has a new_line, and an old_line  *)
(* exactly when the line it was matched to is a Context line; the position *)
(* that postInlineComment sends always carries new_line and new_path, and  *)
(* carries old_line and old_path exactly when the old_line passed to it is *)
(* neither null nor undefined.                                             *)
(***************************************************************************)
Range(f) == {f[k] : k \in 1..Len(f)}

ParsedLinesOf(diffs, file) ==
  IF file \in DOMAIN diffs THEN Range(HunkLines(diffs[file].hunks, Len(diffs[file].hunks))) ELSE {}

\* the lines of the patch that a resolved issue can have been matched to
MatchedLines(c, lines) == {line \in lines : line.type # "removed" /\ line.new_line = c.new_line}

SetWhenContext(c, matched) ==
  /\ c.new_line # None
  /\ matched # {}
  /\ \A line \in matched : (c.old_line # None) <=> (line.type = "context")

ResolvedAreSet(diffs) ==
  \A j \in 1..Len(issuesWithLineNumbers) :
    SetWhenContext(issuesWithLineNumbers[j],
                   MatchedLines(issuesWithLineNumbers[j],
                                ParsedLinesOf(diffs, issuesWithLineNumbers[j].file)))

CarriesOldWhenPassed(sent, oldLine) ==
  /\ sent.new_line # None /\ sent.new_path # None
  /\ (sent.old_line # None) <=> (oldLine # None)
  /\ (sent.old_path # None) <=> (oldLine # None)
  /\ sent.old_line = oldLine

C19_OldLineOnlyForContext ==
  /\ ResolveDone => ResolvedAreSet(fileDiffs)
  /\ \A k \in 1..Len(requests) :
       CarriesOldWhenPassed(requests[k].position, aiReview.inlineComments[k].old_line)

\* a run that sent a resolved Context line with its old_line and a line without one
C19_Witness ==
  /\ DiscoverAnswered
  /\ \E j \in 1..Len(issuesWithLineNumbers) : issuesWithLineNumbers[j].old_line # None
  /\ \E k \in 1..Len(requests) :
       requests[k].position.old_line # None /\ aiReview.inlineComments[k] \in Range(issuesWithLineNumbers)
  /\ \E k \in 1..Len(requests) : requests[k].position.old_line = None

(***************************************************************************)
(* C20: when posting one inline comment fails, postAIInlineComments does   *)
(* not stop or throw: it attempts every remaining comment in list order    *)
(* and returns exactly the comments whose post succeeded, in order.        *)
(***************************************************************************)
\* the comments among the first n whose request succeeded, in order
RECURSIVE Accepted(_)
Accepted(n) ==
  IF n = 0 THEN <<>>
  ELSE IF requests[n].success THEN Append(Accepted(n - 1), aiReview.inlineComments[n])
  ELSE Accepted(n - 1)

\* the k-th request is the one of the k-th comment
InListOrder ==
  \A k \in 1..Len(requests) :
    /\ requests[k].position.new_path = {aiReview.inlineComments[k].file}
    /\ requests[k].position.old_line = aiReview.inlineComments[k].old_line

C20_FailedPostDoesNotStop ==
  /\ InListOrder
  /\ successfullyPostedComments = Accepted(Len(requests))
  /\ postingDone => Len(requests) = Len(aiReview.inlineComments)

\* a post that failed, then one that succeeded, and the return
C20_Witness ==
  /\ postingDone
  /\ Len(requests) = 2
  /\ ~requests[1].success /\ requests[2].success
  /\ successfullyPostedComments = <<aiReview.inlineComments[2]>>

(***************************************************************************)
(* C21: the process exits with code 1 whenever the review found at least   *)
(* one critical issue, and with code 0 when it found none.                 *)
(***************************************************************************)
\* main has left through process.exit
Exited == phase = "exited" /\ exitCode # None

C21_ExitOneIffCritical == Exited => (exitCode = Some(1) <=> STATS.criticalCount > 0)

(***************************************************************************)
(* C22: the general note is posted at most once and only after every       *)
(* inline comment was attempted; at that moment aiReview.inlineComments    *)
(* holds exactly the comments whose post succeeded, and the counts of the  *)
(* critical, moderate and minor metrics are the numbers of the loaded      *)
(* existing issues and of the posted comments of the severity.             *)
(***************************************************************************)
\* the comments the review held when main began to publish it
ReviewedComments == transformCursorAgentOutput(reviewJson)

RECURSIVE PostedAmong(_, _)
\* the comments among the first n of the review whose request succeeded, in order
PostedAmong(comments, n) ==
  IF n = 0 THEN <<>>
  ELSE IF requests[n].success THEN Append(PostedAmong(comments, n - 1), comments[n])
  ELSE PostedAmong(comments, n - 1)

SeverityMetrics ==
  {<<"Critical Issues", "critical">>, <<"Moderate Issues", "moderate">>, <<"Minor Issues", "minor">>}

\* the number of issues of a severity in a list
NumberOf(list, severity) == Cardinality({k \in DOMAIN list : list[k].severity = severity})

CountsOnlyPosted(note, posted) ==
  \A k \in DOMAIN note.metrics : \A pair \in SeverityMetrics :
    note.metrics[k].category = pair[1] =>
      note.metrics[k].count = NumberOf(existingDiscussions, pair[2]) + NumberOf(posted, pair[2])

NoteReflectsPosted(note, posted) ==
  /\ note.inlineComments = posted
  /\ aiReview.inlineComments = posted
  /\ metrics = note.metrics
  /\ CountsOnlyPosted(note, posted)

C22_GeneralNoteAfterPosting ==
  /\ Len(generalNotes) <= 1
  /\ generalNotes # <<>> =>
       /\ postingDone
       /\ Len(requests) = Len(ReviewedComments)
       /\ NoteReflectsPosted(generalNotes[1], PostedAmong(ReviewedComments, Len(requests)))

\* the note of a review with a critical issue whose post failed and one that was posted
C22_Witness ==
  /\ Len(generalNotes) = 1
  /\ Len(requests) = 2
  /\ ~requests[1].success /\ requests[2].success
  /\ ReviewedComments[1].severity = "critical"
  /\ \E k \in DOMAIN metrics : metrics[k].category = "Critical Issues"
  /\ existingDiscussions # <<>>

(***************************************************************************)
(* C23: Dedupe only removes issues: every issue of the list that           *)
(* runThreePhaseReview returns is one of the issues that survived Resolve, *)
(* with the file, new_line and old_line of Resolve, whatever the           *)
(* collaborator answers.                                                   *)
(***************************************************************************)
\* Phase 3 has answered and runThreePhaseReview has returned its review
DedupeAnswered ==
  /\ phase = "done"
  /\ \E r \in 1..Len(agentRuns) : agentRuns[r] = [for |-> "phase3", outcome |-> "ok"]

SurvivedResolve(c) ==
  \E j \in 1..Len(issuesWithLineNumbers) :
    /\ issuesWithLineNumbers[j].file = c.file
    /\ issuesWithLineNumbers[j].new_line = c.new_line
    /\ issuesWithLineNumbers[j].old_line = c.old_line
    /\ issuesWithLineNumbers[j].message = c.message

C23_DedupeOnlyRemoves ==
  DedupeAnswered => \A k \in 1..Len(aiReview.inlineComments) : SurvivedResolve(aiReview.inlineComments[k])

(***************************************************************************)
(* C24: on the three-phase path every inline comment that is stored in     *)
(* existing-discussions.json is in the list of existing discussions that   *)
(* main passes to runThreePhaseReview and that Phase 3 is given.           *)
(***************************************************************************)
\* runThreePhaseReview is running with the list that main loaded
OnThreePhasePath == phase \in {"discover", "resolve", "dedupe"}

\* a stored comment that sits on a line of a file
IsInlineComment(c) == c.file # None /\ c.line # None

C24_StoredCommentsReachDedupe ==
  (OnThreePhasePath /\ discussionsFile.exists) =>
    \A k \in 1..Len(discussionsFile.comments) :
      IsInlineComment(discussionsFile.comments[k]) =>
        \E j \in 1..Len(existingDiscussions) : existingDiscussions[j] = discussionsFile.comments[k]

(***************************************************************************)
(* C25: hunks are attributed only to the file whose valid diff --git       *)
(* header precedes them: the hunks after a diff --git line that does not   *)
(* parse are attached to no file, and a hunk that stands before any valid  *)
(* file header is never attached to a later file.                          *)
(***************************************************************************)
\* the last line up to line p that starts with diff --git, 0 when there is none
FileHeaderAbove(p) == Greatest({h \in 1..p : startsWith(diffContent[h], DiffGit)})

\* the line at p stands in a hunk whose header follows the valid header of the file
UnderHeaderOf(file, p) ==
  /\ FileHeaderAbove(p) # 0
  /\ MatchFileHeader(diffContent[FileHeaderAbove(p)]).ok
  /\ MatchFileHeader(diffContent[FileHeaderAbove(p)]).newPath = file
  /\ FileHeaderAbove(p) < HeaderAbove(p)

C25_HunksOnlyUnderOwnHeader ==
  Parsed =>
    \A f \in DOMAIN fileDiffs : \A k \in 1..Len(fileDiffs[f].hunks) :
      \A p \in PatchLinesOf(fileDiffs[f].hunks[k]) : UnderHeaderOf(f, p)

(***************************************************************************)
(* C26: isSimilarCommentExists returns true only if the issue body and     *)
(* some existing comment body share at least one normalized word (lower    *)
(* case, longer than 3 characters); an issue with an empty body, or two    *)
(* bodies without any word longer than 3 characters, are never reported    *)
(* as duplicates.                                                          *)
(***************************************************************************)
SharesWord(c) == normalize(args.commentBody) \cap normalize(c.body) # {}

BothWordless(c) == normalize(args.commentBody) = {} /\ normalize(c.body) = {}

C26_DuplicateSharesWord ==
  (Called /\ returned[1]) =>
    \E k \in 1..Len(args.existingComments) : SharesWord(args.existingComments[k])

\* C26 as the code has it: the reported duplicate shares a word with a
\* comment on the issue's file near its line, or neither body has a word
\* longer than 3 characters
C26_DuplicateSharesWordOrBothWordless ==
  (Called /\ returned[1]) =>
    \E k \in 1..Len(args.existingComments) :
      /\ Local(args.existingComments[k])
      /\ SharesWord(args.existingComments[k]) \/ BothWordless(args.existingComments[k])

\* an empty issue body reported as a duplicate of a comment without long words
C26_Witness ==
  /\ Called
  /\ returned[1]
  /\ args.commentBody = <<>>
  /\ \A k \in 1..Len(args.existingComments) : ~SharesWord(args.existingComments[k])

(***************************************************************************)
(* C27: on the text of a file diff made of well-formed hunks that do not   *)
(* overlap, for every new-file line T covered by a hunk,                   *)
(* calculateLinePosition returns new_line = T and the old_line of the      *)
(* DiffLine with new_line = T in the model parseDiffPatch builds from the  *)
(* same text: null for an added line, the old line number for a context    *)
(* line.                                                                   *)
(***************************************************************************)
NewRange(h) == h.newStart..(h.newStart + CountNew(h.body) - 1)

Covered(T) == \E k \in 1..Len(changes[1].hunks) : T \in NewRange(changes[1].hunks[k])

NonOverlapping ==
  \A j, k \in 1..Len(changes[1].hunks) :
    j # k => NewRange(changes[1].hunks[j]) \cap NewRange(changes[1].hunks[k]) = {}

\* the lines of the model that carry the new line number T
DiffLinesAt(T) ==
  UNION {{hunk.lines[j] : j \in {i \in 1..Len(hunk.lines) : hunk.lines[i].new_line = {T}}} :
           hunk \in ParsedHunks}

BothPathsRan == Parsed /\ Called

C27_PathsAgree ==
  (BothPathsRan /\ NonOverlapping /\ Covered(args.line)) =>
    /\ returned[1].new_line = args.line
    /\ DiffLinesAt(args.line) # {}
    /\ \A line \in DiffLinesAt(args.line) :
         /\ returned[1].old_line = line.old_line
         /\ line.type = "added" => returned[1].old_line = {}
         /\ line.type = "context" => returned[1].old_line # {}

\* a context line behind a removed and an added line, in the second hunk
C27_Witness ==
  /\ BothPathsRan /\ NonOverlapping /\ Covered(args.line)
  /\ Len(changes[1].hunks) = 2
  /\ args.line \in NewRange(changes[1].hunks[2])
  /\ \E n \in returned[1].old_line : n # args.line
  /\ \E k \in 1..Len(changes[1].hunks[1].body) : changes[1].hunks[1].body[k].prefix = "-"

(***************************************************************************)
(* C28: fixIncompleteJSON never removes a complete issue: an issue with a  *)
(* recommendation of at least 10 characters, non-empty effort, impact and  *)
(* priority and a code example of at least 10 characters that does not end *)
(* in three dots stays in the issues array, and the issues removed form a  *)
(* suffix of at most 3 elements of the array.                              *)
(***************************************************************************)
IssuesBefore == IF args.issues = {} THEN <<>> ELSE CHOOSE l \in args.issues : TRUE

IssuesAfter == CHOOSE l \in returned[1].issues : TRUE

Filled(o) == \E text \in o : Len(text) > 0

CompleteIssue(i) ==
  /\ \E text \in i.recommendation : Len(text) >= 10
  /\ Filled(i.effort) /\ Filled(i.impact) /\ Filled(i.priority)
  /\ \E code \in i.codeExample :
       /\ Len(code) >= 10
       /\ ~(code[Len(code)] = "." /\ code[Len(code) - 1] = "." /\ code[Len(code) - 2] = ".")

RemovedIsShortSuffix ==
  /\ Len(IssuesAfter) <= Len(IssuesBefore)
  /\ Len(IssuesBefore) - Len(IssuesAfter) <= 3
  /\ IssuesAfter = SubSeq(IssuesBefore, 1, Len(IssuesAfter))

C28_CompleteIssuesStay ==
  Called =>
    /\ RemovedIsShortSuffix
    /\ \A k \in 1..Len(IssuesBefore) : CompleteIssue(IssuesBefore[k]) => k <= Len(IssuesAfter)

(***************************************************************************)
(* C29: in every reachable state 0 <= STATS.inlineSuccess <=               *)
(* STATS.inlineTotal; each call of postInlineComment increases inlineTotal *)
(* by exactly one and inlineSuccess by one exactly when it returns true;   *)
(* once postAIInlineComments has returned, the number of comments it       *)
(* returned is the increase of inlineSuccess during the call.              *)
(***************************************************************************)
SuccessBounded == 0 <= STATS.inlineSuccess /\ STATS.inlineSuccess <= STATS.inlineTotal

\* inlineSuccess when postAIInlineComments is entered
SuccessAtEntry == NoStats.inlineSuccess

ReturnedCountIsIncrease ==
  postingDone => Len(successfullyPostedComments) = STATS.inlineSuccess - SuccessAtEntry

\* a step that sends a request is one call of postInlineComment
CallCounted ==
  requests' # requests =>
    /\ Len(requests') = Len(requests) + 1
    /\ STATS'.inlineTotal = STATS.inlineTotal + 1
    /\ STATS'.inlineSuccess =
         STATS.inlineSuccess + (IF requests'[Len(requests')].success THEN 1 ELSE 0)

C29_StatsCountPosts ==
  /\ [](SuccessBounded /\ ReturnedCountIsIncrease)
  /\ [][CallCounted]_vars

\* postAIInlineComments has returned after a call that failed and one that succeeded
C29_Witness ==
  /\ postingDone
  /\ STATS.inlineSuccess >= 1
  /\ STATS.inlineTotal > STATS.inlineSuccess

(***************************************************************************)
(* C30: for every interleaving of the child's close and error events with  *)
(* the timeout timer, executeCursorAgent settles exactly once; it resolves *)
(* with the captured stdout only if the child closed with exit code 0      *)
(* before the timeout fired; if the timeout fires first the child is sent  *)
(* SIGTERM and the call rejects, and a later close event does not change   *)
(* that outcome; the temporary prompt file has been removed when the call  *)
(* settles.                                                                *)
(***************************************************************************)
Settled == execution.promise.state # "pending"

OutcomeKept == Settled => execution'.promise = execution.promise

ResolvedOnlyOnCleanClose ==
  execution.promise.state = "resolved" =>
    /\ execution.cursorProcess.closed
    /\ execution.cursorProcess.code = {0}
    /\ execution.timeout # "fired"
    /\ execution.promise.value = execution.stdout

TimeoutKillsAndRejects ==
  execution.timeout = "fired" =>
    /\ \E k \in 1..Len(execution.cursorProcess.signals) :
         execution.cursorProcess.signals[k] = "SIGTERM"
    /\ execution.promise.state = "rejected"
    /\ ~execution.cursorProcess.errored => execution.promise.reason.kind = "timed out"

PromptFileRemoved == Settled => ~execution.promptFile

C30_SettlesExactlyOnce ==
  /\ [][OutcomeKept]_vars
  /\ [](ResolvedOnlyOnCleanClose /\ TimeoutKillsAndRejects /\ PromptFileRemoved)
  /\ <>Settled

\* the child closes with exit code 0 after the timeout has fired
C30_Witness ==
  /\ execution.timeout = "fired"
  /\ execution.cursorProcess.closed
  /\ execution.cursorProcess.code = {0}
  /\ execution.promise.state = "rejected"
  /\ Len(execution.stdout) > 0

====
